---- MODULE Spec2Model ----
(***************************************************************************)
(* Model of the Device Shadow demo of the AWS IoT Device SDK for Embedded  *)
(* C on Azure Sphere (demos/shadow/shadow_demo_main/shadow_demo_main.c).   *)
(*                                                                         *)
(* shadow_demo_main is one sequential thread of control.  Every call of a  *)
(* session helper (EstablishMqttSession, PublishToTopic, SubscribeToTopic, *)
(* UnsubscribeFromTopic, DisconnectMqttSession) is modelled as two steps:  *)
(* the step that issues the call and the step HelperReturn in which the    *)
(* helper returns its status.  Between the two, while the helper runs the  *)
(* MQTT process loop, eventCallback is invoked synchronously for inbound   *)
(* packets.  The statuses of the helpers, the inbound packets, the clock   *)
(* and the device identifier are inputs chosen by the environment.         *)
(***************************************************************************)
EXTENDS Integers, Sequences, FiniteSets, TLC

\* ------------------------------------------------------------------ bounds
\* The numbers that inbound documents carry as version, powerOn and
\* clientToken are n and 10 * n for n in 0..MaxValue.
MaxValue == 1
\* Largest number of inbound packets delivered to eventCallback in a run.
MaxInbound == 2

\* ------------------------------------------------------- JSON value texts
\* A value text is a sequence of characters.
DigitChars == << "0", "1", "2", "3", "4", "5", "6", "7", "8", "9" >>
\* Stands for any character that is not a digit, a sign or a blank.
NonDigitChar == "x"

IsDigit(c) == \E i \in 1..Len(DigitChars) : DigitChars[i] = c
DigitValue(c) == (CHOOSE i \in 1..Len(DigitChars) : DigitChars[i] = c) - 1

\* The decimal numeral of n, as the shadow service writes a number.
RECURSIVE Decimal(_)
Decimal(n) ==
    IF n < Len(DigitChars)
        THEN << DigitChars[n + 1] >>
        ELSE Append(Decimal(n \div Len(DigitChars)), DigitChars[(n % Len(DigitChars)) + 1])

Values == { n * k : n \in 0..MaxValue, k \in {1, Len(DigitChars)} }
\* The texts JSON_Search can hand back in outValue: numerals, and a text
\* that is not a number.
Texts == { Decimal(n) : n \in Values } \cup { << NonDigitChar >> }
\* outValue before any successful JSON_Search; also a field that is absent
\* from the document (JSON_Search returns JSONNotFound for it).
NULL == << >>

IsNumeric(s) == s # NULL /\ \A i \in 1..Len(s) : IsDigit(s[i])

RECURSIVE strtoulFrom(_, _, _)
strtoulFrom(s, i, acc) ==
    IF i > Len(s) \/ ~IsDigit(s[i])
        THEN acc
        ELSE strtoulFrom(s, i + 1, acc * Len(DigitChars) + DigitValue(s[i]))

\* ( uint32_t ) strtoul( outValue, NULL, 10 ): the value of the longest
\* prefix of decimal digits, 0 when there is none.  The numerals of Texts
\* stay far below 2^32, so the cast to uint32_t does not truncate.
strtoul(s) == strtoulFrom(s, 1, 0)

\* ------------------------------------------------------- inbound packets
\* A payload as the JSON library sees it: valid is the outcome of
\* JSON_Validate, and version, powerOn and clientToken are what JSON_Search
\* finds for the keys "version", "state.powerOn" and "clientToken" (NULL
\* when the key is not in the document).
Fields == Texts \cup {NULL}
InvalidDoc == [valid |-> FALSE, version |-> NULL, powerOn |-> NULL, clientToken |-> NULL]
DeltaDocs ==
    { [valid |-> TRUE, version |-> v, powerOn |-> p, clientToken |-> NULL] :
        v \in Fields, p \in Fields } \cup {InvalidDoc}
AcceptedDocs ==
    { [valid |-> TRUE, version |-> NULL, powerOn |-> NULL, clientToken |-> t] :
        t \in Fields } \cup {InvalidDoc}

\* What Shadow_MatchTopic makes of the topic of an inbound publish: one of
\* the shadow message types, or no match.
MessageTypes ==
    { "ShadowMessageTypeUpdateDelta", "ShadowMessageTypeUpdateAccepted",
      "ShadowMessageTypeUpdateDocuments", "ShadowMessageTypeUpdateRejected",
      "ShadowMessageTypeGetAccepted" }
NoMatch == "SHADOW_FAIL"

Packets ==
    [type : {"PUBLISH"}, topic : {"ShadowMessageTypeUpdateDelta"}, doc : DeltaDocs]
    \cup [type : {"PUBLISH"}, topic : {"ShadowMessageTypeUpdateAccepted"}, doc : AcceptedDocs]
    \cup [type : {"PUBLISH"},
          topic : (MessageTypes \cup {NoMatch})
                    \ {"ShadowMessageTypeUpdateDelta", "ShadowMessageTypeUpdateAccepted"},
          doc : {InvalidDoc}]
    \cup [type : {"SUBACK"}, topic : {NoMatch}, doc : {InvalidDoc}]
NoPacket == [type |-> "NONE", topic |-> NoMatch, doc |-> InvalidDoc]

\* ------------------------------------------------------------- constants
EXIT_SUCCESS == "EXIT_SUCCESS"
EXIT_FAILURE == "EXIT_FAILURE"
Statuses == {EXIT_SUCCESS, EXIT_FAILURE}
Pending == "pending"

\* sizeof( SHADOW_DESIRED_JSON ) - 3
SHADOW_DESIRED_JSON_LENGTH == 58
\* sizeof( SHADOW_REPORTED_JSON ) - 3
SHADOW_REPORTED_JSON_LENGTH == 59
\* Clock_GetTimeMs() % 1000000
TokenModulus == 1000000
\* Values of Clock_GetTimeMs() at the moments the run reads the clock.
ClockMs == {1, 20, 1000001}
\* The value of Clock_GetTimeMs() when the desired document is written.  No
\* code reads the token of the desired document again (it is not stored in
\* clientToken), so one value stands for all.
DesiredClockMs == {1000020}

\* The two lines updateAcceptedHandler logs about a received token, and the
\* value of tokenLog before either was written.
LogInfoAccepted == "LogInfo: previously published update has been accepted"
LogWarnNotIdentical == "LogWarn: received clientToken is not identical"
NoLog == "none"

\* What GetDeviceID leaves in device_id: nothing when it fails, an identifier
\* from which Shadow_GetTopicString derives the five topics, or an
\* identifier for which Shadow_GetTopicString returns an error (one that is
\* longer than a thing name may be, so that the call leaves the topic buffer
\* as it was).  IdNotRead is device_id before loadTopicStrings ran.
IdNotRead == "not read"
IdUnavailable == "unavailable"
IdDerivable == "derivable"
IdTooLong == "too long"
DeviceIds == {IdUnavailable, IdDerivable, IdTooLong}
\* The five static topic buffers: zero-initialised, hence empty strings,
\* until Shadow_GetTopicString has written the topics into them.
EmptyTopics == "empty"
DerivedTopics == "derived"

VARIABLES
    pc,                   \* position of shadow_demo_main
    inCall,               \* TRUE while a session helper is running
    returnStatus,         \* local returnStatus of shadow_demo_main
    currentPowerOnState,  \* static uint32_t currentPowerOnState
    stateChanged,         \* static bool stateChanged
    clientToken,          \* static uint32_t clientToken
    eventCallbackError,   \* static bool eventCallbackError
    currentVersion,       \* static uint32_t currentVersion of updateDeltaHandler
    calls,                \* the session helper calls issued so far, in order
    packet,               \* the packet of the latest eventCallback invocation
    nInbound,             \* number of eventCallback invocations so far
    tokenLog,             \* the line updateAcceptedHandler last logged about the token
    device_id,            \* char device_id[ 256 ] of loadTopicStrings
    ShadowTopicStrings,   \* static char ShadowTopicString...[ SHADOW_TOPIC_MAX_LENGTH ]
    updateDocument        \* static char updateDocument[ SHADOW_REPORTED_JSON_LENGTH + 1 ]

\* ------------------------------------------- transport (wolfssl_posix.c)
\* Pointers.  A pointer argument is NULL or points to an object of the
\* caller; a handle of the TLS library is NULL, points to a live object, or
\* still points to an object that was freed.
SomeObject == << "object" >>
Live == << "live" >>
Freed == << "freed" >>
Pointers == {NULL, SomeObject}
Handles == {NULL, Live, Freed}

\* The build: add_compile_definitions(AzureSpherePlatform).
AzureSpherePlatform == TRUE

\* WolfsslStatus_t and the SocketStatus_t values convertToWolfsslStatus
\* tells apart; UnexpectedSocketStatus stands for every other value.
WOLFSSL_SUCCEED == "WOLFSSL_SUCCEED"
WOLFSSL_INVALID_PARAMETER == "WOLFSSL_INVALID_PARAMETER"
WOLFSSL_INVALID_CREDENTIALS == "WOLFSSL_INVALID_CREDENTIALS"
WOLFSSL_HANDSHAKE_FAILED == "WOLFSSL_HANDSHAKE_FAILED"
WOLFSSL_API_ERROR == "WOLFSSL_API_ERROR"
WOLFSSL_DNS_FAILURE == "WOLFSSL_DNS_FAILURE"
WOLFSSL_CONNECT_FAILURE == "WOLFSSL_CONNECT_FAILURE"
WolfsslStatuses ==
    { WOLFSSL_SUCCEED, WOLFSSL_INVALID_PARAMETER, WOLFSSL_INVALID_CREDENTIALS,
      WOLFSSL_HANDSHAKE_FAILED, WOLFSSL_API_ERROR, WOLFSSL_DNS_FAILURE,
      WOLFSSL_CONNECT_FAILURE }
SOCKETS_SUCCESS == "SOCKETS_SUCCESS"
SOCKETS_INVALID_PARAMETER == "SOCKETS_INVALID_PARAMETER"
SOCKETS_DNS_FAILURE == "SOCKETS_DNS_FAILURE"
SOCKETS_CONNECT_FAILURE == "SOCKETS_CONNECT_FAILURE"
UnexpectedSocketStatus == "unexpected socket status"
SocketStatuses ==
    { SOCKETS_SUCCESS, SOCKETS_INVALID_PARAMETER, SOCKETS_DNS_FAILURE,
      SOCKETS_CONNECT_FAILURE, UnexpectedSocketStatus }

\* The socket that socketDescriptor names: none yet, an open one, a closed one.
NoSocket == "no socket"
OpenSocket == "open"
ClosedSocket == "closed"
Sockets == {NoSocket, OpenSocket, ClosedSocket}

\* struct WolfsslCredentials, each pointer as NULL or not and each length as
\* zero or not.
WolfsslCredentials ==
    [ pAlpnProtos : Pointers, alpnProtosLen : {0, 1}, sniHostName : Pointers,
      maxFragmentLength : {0, 1}, pRootCaPath : Pointers,
      pClientCertPath : Pointers, pPrivateKeyPath : Pointers ]
NoCredentials ==
    [ pAlpnProtos |-> NULL, alpnProtosLen |-> 0, sniHostName |-> NULL,
      maxFragmentLength |-> 0, pRootCaPath |-> NULL,
      pClientCertPath |-> NULL, pPrivateKeyPath |-> NULL ]

\* The arguments of a transport call.  credentials is what
\* pWolfsslCredentials points to; it has a content only when the three
\* pointers are not NULL, because only then is it read.
TransportArgs ==
    { [pNetworkContext |-> n, pServerInfo |-> s, pWolfsslCredentials |-> w,
       credentials |-> c] :
        n \in Pointers, s \in Pointers, w \in Pointers, c \in WolfsslCredentials }
ConnectArgs ==
    { a \in TransportArgs :
        (a.pNetworkContext = NULL \/ a.pServerInfo = NULL
           \/ a.pWolfsslCredentials = NULL) => a.credentials = NoCredentials }
NoArgs ==
    [ pNetworkContext |-> NULL, pServerInfo |-> NULL,
      pWolfsslCredentials |-> NULL, credentials |-> NoCredentials ]

\* Positions of the transport: between two calls, in one of the blocks of
\* Wolfssl_Connect, or stopped by the use of a freed object.
Idle == "idle"
Crashed == "crashed"
NoOp == "none"

VARIABLES
    tlsPc,             \* position of the transport
    tlsOp,             \* the transport function called last
    tlsArgs,           \* its arguments
    wolfsslStatus,     \* returnStatus of the function; its result once it returned
    sslObjectCreated,  \* local sslObjectCreated of Wolfssl_Connect
    pSslContext,       \* local pSslContext of Wolfssl_Connect
    socketDescriptor,  \* pNetworkContext->socketDescriptor
    pSsl,              \* pNetworkContext->pSsl
    tlsTrace,          \* the calls the function made so far, in order of return
    nTransport,        \* number of transport calls so far
    channelRet,        \* what wolfSSL_read or wolfSSL_write returned to the call
    bytesTransferred   \* bytesReceived of Wolfssl_Recv, bytesSent of Wolfssl_Send

transportVars == << tlsPc, tlsOp, tlsArgs, wolfsslStatus, sslObjectCreated,
                    pSslContext, socketDescriptor, pSsl, tlsTrace, nTransport,
                    channelRet, bytesTransferred >>

shadowVars == << pc, inCall, returnStatus, currentPowerOnState, stateChanged,
                 clientToken, eventCallbackError, currentVersion, calls, packet,
                 nInbound, tokenLog, device_id, ShadowTopicStrings,
                 updateDocument >>

vars == << shadowVars, transportVars >>

\* What only the callback handlers and the reported publish write.
statics == << currentPowerOnState, stateChanged, clientToken,
              eventCallbackError, currentVersion, tokenLog >>
\* What only loadTopicStrings writes.
topics == << device_id, ShadowTopicStrings >>
\* What a step that only issues a helper call leaves alone.
globals == << statics, topics, updateDocument >>

Init ==
    /\ pc = "loadTopicStrings"
    /\ inCall = FALSE
    /\ returnStatus = EXIT_SUCCESS
    /\ currentPowerOnState = 0
    /\ stateChanged = FALSE
    /\ clientToken = 0
    /\ eventCallbackError = FALSE
    /\ currentVersion = 0
    /\ calls = << >>
    /\ packet = NoPacket
    /\ nInbound = 0
    /\ tokenLog = NoLog
    /\ device_id = IdNotRead
    /\ ShadowTopicStrings = EmptyTopics
    /\ updateDocument = << >>
    /\ tlsPc = Idle
    /\ tlsOp = NoOp
    /\ tlsArgs = NoArgs
    /\ wolfsslStatus = WOLFSSL_SUCCEED
    /\ sslObjectCreated = 0
    /\ pSslContext = NULL
    /\ socketDescriptor = NoSocket
    /\ pSsl = NULL
    /\ tlsTrace = << >>
    /\ nTransport = 0
    /\ channelRet = 0
    /\ bytesTransferred = 0

\* ------------------------------------------------------ updateDeltaHandler
\* The handlers are functions from the statics they read and write (a record
\* g with the fields currentVersion, currentPowerOnState, stateChanged,
\* clientToken and eventCallbackError) and the payload to the statics after
\* the call.  The record h adds the locals of updateDeltaHandler.

\* Locals at entry of updateDeltaHandler.
deltaEntry(g) ==
    [ g |-> g, result |-> "JSONSuccess", outValue |-> NULL,
      version |-> 0, newState |-> 0 ]

\* JSON_Validate, then JSON_Search for "version" when the document is valid.
deltaValidate(doc, h) ==
    IF doc.valid
        THEN IF doc.version # NULL
                 THEN [h EXCEPT !.result = "JSONSuccess", !.outValue = doc.version]
                 ELSE [h EXCEPT !.result = "JSONNotFound"]
        ELSE [h EXCEPT !.result = "JSONIllegalDocument",
                       !.g.eventCallbackError = TRUE]

\* Conversion of the version text, or "No version in json document!!".
deltaVersion(h) ==
    IF h.result = "JSONSuccess"
        THEN [h EXCEPT !.version = strtoul(h.outValue)]
        ELSE [h EXCEPT !.g.eventCallbackError = TRUE]

\* deltaCompare with the comparison written as version != currentVersion.
deltaCompare_neq(doc, h) ==
    IF h.version # h.g.currentVersion
        THEN IF doc.powerOn # NULL
                 THEN [h EXCEPT !.g.currentVersion = h.version,
                                !.result = "JSONSuccess",
                                !.outValue = doc.powerOn]
                 ELSE [h EXCEPT !.g.currentVersion = h.version,
                                !.result = "JSONNotFound"]
        ELSE h

\* deltaCompare with the comparison written as version >= currentVersion.
deltaCompare_geq(doc, h) ==
    IF h.version >= h.g.currentVersion
        THEN IF doc.powerOn # NULL
                 THEN [h EXCEPT !.g.currentVersion = h.version,
                                !.result = "JSONSuccess",
                                !.outValue = doc.powerOn]
                 ELSE [h EXCEPT !.g.currentVersion = h.version,
                                !.result = "JSONNotFound"]
        ELSE h

\* deltaCompare that treats a version that is not newer as an error.
deltaCompare_strict(doc, h) ==
    IF h.version > h.g.currentVersion
        THEN IF doc.powerOn # NULL
                 THEN [h EXCEPT !.g.currentVersion = h.version,
                                !.result = "JSONSuccess",
                                !.outValue = doc.powerOn]
                 ELSE [h EXCEPT !.g.currentVersion = h.version,
                                !.result = "JSONNotFound"]
        ELSE [h EXCEPT !.g.eventCallbackError = TRUE]

\* if( version > currentVersion ): adopt the version and search
\* "state.powerOn"; otherwise only a warning is logged, and result and
\* outValue keep what the search for "version" left in them.
deltaCompare(doc, h) ==
    IF h.version > h.g.currentVersion
        THEN IF doc.powerOn # NULL
                 THEN [h EXCEPT !.g.currentVersion = h.version,
                                !.result = "JSONSuccess",
                                !.outValue = doc.powerOn]
                 ELSE [h EXCEPT !.g.currentVersion = h.version,
                                !.result = "JSONNotFound"]
        ELSE h

\* deltaApply without the assignment stateChanged = true.
deltaApply_noflag(h) ==
    IF h.result = "JSONSuccess"
        THEN LET newState == strtoul(h.outValue)
             IN  IF newState # h.g.currentPowerOnState
                     THEN [h EXCEPT !.newState = newState,
                                    !.g.currentPowerOnState = newState]
                     ELSE [h EXCEPT !.newState = newState]
        ELSE [h EXCEPT !.g.eventCallbackError = TRUE]

\* if( result == JSONSuccess ): convert outValue and take it over as the new
\* power state when it differs; otherwise "No powerOn in json document!!".
deltaApply(h) ==
    IF h.result = "JSONSuccess"
        THEN LET newState == strtoul(h.outValue)
             IN  IF newState # h.g.currentPowerOnState
                     THEN [h EXCEPT !.newState = newState,
                                    !.g.currentPowerOnState = newState,
                                    !.g.stateChanged = TRUE]
                     ELSE [h EXCEPT !.newState = newState]
        ELSE [h EXCEPT !.g.eventCallbackError = TRUE]

updateDeltaHandler(doc, g) ==
    deltaApply(deltaCompare(doc, deltaVersion(deltaValidate(doc, deltaEntry(g))))).g

\* --------------------------------------------------- updateAcceptedHandler
\* JSON_Validate, JSON_Search for "clientToken", and the comparison of the
\* received token with clientToken, whose two outcomes are only logged:
\* tokenLog keeps which of the two lines was written.
\* updateAcceptedHandler clearing eventCallbackError when the token matches.
updateAcceptedHandler_clears(doc, g) ==
    IF doc.valid
        THEN IF doc.clientToken # NULL
                 THEN LET receivedToken == strtoul(doc.clientToken)
                      IN  IF receivedToken = g.clientToken
                              THEN [g EXCEPT !.tokenLog = LogInfoAccepted,
                                             !.eventCallbackError = FALSE]
                              ELSE [g EXCEPT !.tokenLog = LogWarnNotIdentical]
                 ELSE [g EXCEPT !.eventCallbackError = TRUE]
        ELSE [g EXCEPT !.eventCallbackError = TRUE]

\* updateAcceptedHandler treating a token that is not identical as an error.
updateAcceptedHandler_strict(doc, g) ==
    IF doc.valid
        THEN IF doc.clientToken # NULL
                 THEN LET receivedToken == strtoul(doc.clientToken)
                      IN  IF receivedToken = g.clientToken
                              THEN [g EXCEPT !.tokenLog = LogInfoAccepted]
                              ELSE [g EXCEPT !.tokenLog = LogWarnNotIdentical,
                                             !.eventCallbackError = TRUE]
                 ELSE [g EXCEPT !.eventCallbackError = TRUE]
        ELSE [g EXCEPT !.eventCallbackError = TRUE]

updateAcceptedHandler(doc, g) ==
    IF doc.valid
        THEN IF doc.clientToken # NULL
                 THEN LET receivedToken == strtoul(doc.clientToken)
                      IN  IF receivedToken = g.clientToken
                              THEN [g EXCEPT !.tokenLog = LogInfoAccepted]
                              ELSE [g EXCEPT !.tokenLog = LogWarnNotIdentical]
                 ELSE [g EXCEPT !.eventCallbackError = TRUE]
        ELSE [g EXCEPT !.eventCallbackError = TRUE]

\* ----------------------------------------------------------- eventCallback
\* eventCallback that takes back stateChanged on a message of another type.
eventCallback_resets(pkt, g) ==
    IF pkt.type = "PUBLISH"
        THEN IF pkt.topic # NoMatch
                 THEN CASE pkt.topic = "ShadowMessageTypeUpdateDelta" ->
                               updateDeltaHandler(pkt.doc, g)
                        [] pkt.topic = "ShadowMessageTypeUpdateAccepted" ->
                               updateAcceptedHandler(pkt.doc, g)
                        [] OTHER -> [g EXCEPT !.stateChanged = FALSE]
                 ELSE [g EXCEPT !.eventCallbackError = TRUE]
        ELSE g

\* eventCallback that only logs a topic Shadow_MatchTopic does not match.
eventCallback_lenient(pkt, g) ==
    IF pkt.type = "PUBLISH"
        THEN IF pkt.topic # NoMatch
                 THEN CASE pkt.topic = "ShadowMessageTypeUpdateDelta" ->
                               updateDeltaHandler(pkt.doc, g)
                        [] pkt.topic = "ShadowMessageTypeUpdateAccepted" ->
                               updateAcceptedHandler(pkt.doc, g)
                        [] OTHER -> g
                 ELSE g
        ELSE g

\* Shadow_MatchTopic, then the handler of the message type; a publish on a
\* topic that is not a shadow topic sets eventCallbackError.
eventCallback(pkt, g) ==
    IF pkt.type = "PUBLISH"
        THEN IF pkt.topic # NoMatch
                 THEN CASE pkt.topic = "ShadowMessageTypeUpdateDelta" ->
                               updateDeltaHandler(pkt.doc, g)
                        [] pkt.topic = "ShadowMessageTypeUpdateAccepted" ->
                               updateAcceptedHandler(pkt.doc, g)
                        [] OTHER -> g
                 ELSE [g EXCEPT !.eventCallbackError = TRUE]
        ELSE g   \* HandleOtherIncomingPacket

\* The statics as a record.
Statics ==
    [ currentVersion |-> currentVersion,
      currentPowerOnState |-> currentPowerOnState,
      stateChanged |-> stateChanged,
      clientToken |-> clientToken,
      eventCallbackError |-> eventCallbackError,
      tokenLog |-> tokenLog ]

\* The helpers that run the MQTT process loop before they return.
ProcessLoopSteps ==
    { "PublishDelete", "SubscribeDelta", "SubscribeAccepted", "SubscribeRejected",
      "PublishDesired", "PublishReported",
      "UnsubscribeDelta", "UnsubscribeAccepted", "UnsubscribeRejected" }

\* An eventCallback that answers the packet with a publish of its own.
EventCallback_publishes ==
    /\ inCall
    /\ pc \in ProcessLoopSteps
    /\ nInbound < MaxInbound
    /\ \E pkt \in Packets :
        LET g == eventCallback(pkt, Statics)
        IN  /\ packet' = pkt
            /\ currentVersion' = g.currentVersion
            /\ currentPowerOnState' = g.currentPowerOnState
            /\ stateChanged' = g.stateChanged
            /\ clientToken' = g.clientToken
            /\ eventCallbackError' = g.eventCallbackError
            /\ tokenLog' = g.tokenLog
    /\ nInbound' = nInbound + 1
    /\ calls' = Append(calls, [op |-> "PublishToTopic", topic |-> "update",
                               len |-> 0, status |-> EXIT_SUCCESS])
    /\ UNCHANGED << transportVars, pc, inCall, returnStatus, topics,
                    updateDocument >>

\* The MQTT library delivers an inbound packet to eventCallback while a
\* helper is in its process loop.
EventCallback ==
    /\ inCall
    /\ pc \in ProcessLoopSteps
    /\ nInbound < MaxInbound
    /\ \E pkt \in Packets :
        LET g == eventCallback(pkt, Statics)
        IN  /\ packet' = pkt
            /\ currentVersion' = g.currentVersion
            /\ currentPowerOnState' = g.currentPowerOnState
            /\ stateChanged' = g.stateChanged
            /\ clientToken' = g.clientToken
            /\ eventCallbackError' = g.eventCallbackError
            /\ tokenLog' = g.tokenLog
    /\ nInbound' = nInbound + 1
    /\ UNCHANGED << transportVars, pc, inCall, returnStatus, calls, topics,
                    updateDocument >>

\* ------------------------------------------------------- update documents
\* The literal parts of the format strings SHADOW_DESIRED_JSON and
\* SHADOW_REPORTED_JSON, as sequences of characters.
DesiredHead ==
    << "{", "\"", "s", "t", "a", "t", "e", "\"", ":", "{", "\"", "d", "e",
       "s", "i", "r", "e", "d", "\"", ":", "{", "\"", "p", "o", "w", "e",
       "r", "O", "n", "\"", ":" >>
ReportedHead ==
    << "{", "\"", "s", "t", "a", "t", "e", "\"", ":", "{", "\"", "r", "e",
       "p", "o", "r", "t", "e", "d", "\"", ":", "{", "\"", "p", "o", "w",
       "e", "r", "O", "n", "\"", ":" >>
TokenHead ==
    << "}", "}", ",", "\"", "c", "l", "i", "e", "n", "t", "T", "o", "k", "e",
       "n", "\"", ":", "\"" >>
DocumentTail ==
    << "\"", "}" >>

\* "%01d" of ( int ) n: the decimal numeral of n, at least one character
\* wide, which every numeral is.  The values of the model stay below 2^31,
\* so the cast to int keeps them.
Format01d(n) == Decimal(n)

\* "%06lu" of n: the decimal numeral of n, padded on the left with zeros to
\* six characters.
TokenWidth == 6
RECURSIVE ZeroPad(_, _)
ZeroPad(text, width) ==
    IF Len(text) >= width THEN text ELSE ZeroPad(<< DigitChars[1] >> \o text, width)
Format06lu(n) == ZeroPad(Decimal(n), TokenWidth)

SHADOW_DESIRED_JSON(powerOn, token) ==
    DesiredHead \o Format01d(powerOn) \o TokenHead \o Format06lu(token) \o DocumentTail
SHADOW_REPORTED_JSON(powerOn, token) ==
    ReportedHead \o Format01d(powerOn) \o TokenHead \o Format06lu(token) \o DocumentTail

\* snprintf( buffer, size, ... ): the string left in the buffer is the
\* formatted text cut to size - 1 characters (the last byte is the
\* terminating zero).
snprintf(size, text) ==
    IF Len(text) <= size - 1 THEN text ELSE SubSeq(text, 1, size - 1)

\* The payload PublishToTopic is given: the first len bytes of the buffer,
\* which memset filled with zero bytes before snprintf wrote the string.
ZeroByte == "NUL"
payload(buffer, len) ==
    [ i \in 1..len |-> IF i <= Len(buffer) THEN buffer[i] ELSE ZeroByte ]

\* -------------------------------------------------------- shadow_demo_main
\* The entry that a helper call leaves in calls: the helper, the shadow
\* topic, the payload length, and the status the helper returned (Pending
\* while it runs).
Call(op, topic, len) ==
    [op |-> op, topic |-> topic, len |-> len, status |-> Pending]

Issue(c) ==
    /\ calls' = Append(calls, c)
    /\ inCall' = TRUE

\* The position after the helper called at position p has returned.
Successor(p) ==
    CASE p = "EstablishMqttSession" -> "PublishDelete"
      [] p = "PublishDelete"        -> "SubscribeDelta"
      [] p = "SubscribeDelta"       -> "SubscribeAccepted"
      [] p = "SubscribeAccepted"    -> "SubscribeRejected"
      [] p = "SubscribeRejected"    -> "PublishDesired"
      [] p = "PublishDesired"       -> "PublishReported"
      [] p = "PublishReported"      -> "UnsubscribeDelta"
      [] p = "UnsubscribeDelta"     -> "UnsubscribeAccepted"
      [] p = "UnsubscribeAccepted"  -> "UnsubscribeRejected"
      [] p = "UnsubscribeRejected"  -> "DisconnectMqttSession"
      [] p = "DisconnectMqttSession" -> "CheckCallbackError"

\* A step whose condition is false is skipped: control falls to the next one.
Skip ==
    /\ pc' = Successor(pc)
    /\ UNCHANGED << inCall, calls >>

\* int ret = -1; if( GetDeviceID( device_id, 256 ) == 0 ) { five calls of
\* Shadow_GetTopicString, whose results are not looked at; ret = 0; }
loadTopicStrings(id) ==
    [ ret |-> IF id = IdUnavailable THEN -1 ELSE 0,
      topics |-> IF id = IdDerivable THEN DerivedTopics ELSE EmptyTopics ]

\* shadow_demo_main that goes on to EstablishMqttSession whatever
\* loadTopicStrings returns.
LoadTopicStrings_unchecked ==
    /\ pc = "loadTopicStrings"
    /\ \E id \in DeviceIds :
        /\ device_id' = id
        /\ ShadowTopicStrings' = loadTopicStrings(id).topics
        /\ pc' = "EstablishMqttSession"
        /\ UNCHANGED returnStatus
    /\ UNCHANGED << transportVars, inCall, statics, updateDocument, calls, packet,
                    nInbound >>

\* if( loadTopicStrings() < 0 ) return EXIT_FAILURE;
LoadTopicStrings ==
    /\ pc = "loadTopicStrings"
    /\ \E id \in DeviceIds :
        /\ device_id' = id
        /\ ShadowTopicStrings' = loadTopicStrings(id).topics
        /\ IF loadTopicStrings(id).ret < 0
               THEN /\ pc' = "done"
                    /\ returnStatus' = EXIT_FAILURE
               ELSE /\ pc' = "EstablishMqttSession"
                    /\ UNCHANGED returnStatus
    /\ UNCHANGED << transportVars, inCall, statics, updateDocument, calls, packet,
                    nInbound >>

\* returnStatus = EstablishMqttSession( eventCallback );
EstablishMqttSession ==
    /\ pc = "EstablishMqttSession" /\ ~inCall
    /\ Issue(Call("EstablishMqttSession", "none", 0))
    /\ UNCHANGED << transportVars, pc, returnStatus, globals, packet, nInbound >>

\* A helper returns; its status is assigned to returnStatus.  A failed
\* EstablishMqttSession takes the run past the else branch.
HelperReturn ==
    /\ inCall
    /\ \E status \in Statuses :
        /\ returnStatus' = status
        /\ calls' = [calls EXCEPT ![Len(calls)].status = status]
        /\ pc' = IF pc = "EstablishMqttSession" /\ status = EXIT_FAILURE
                     THEN "CheckCallbackError"
                     ELSE Successor(pc)
    /\ inCall' = FALSE
    /\ UNCHANGED << transportVars, globals, packet, nInbound >>

\* PublishToTopic( ShadowTopicStringDelete, ..., updateDocument, 0U );
PublishDelete ==
    /\ pc = "PublishDelete" /\ ~inCall
    /\ Issue(Call("PublishToTopic", "delete", 0))
    /\ UNCHANGED << transportVars, pc, returnStatus, globals, packet, nInbound >>

SubscribeDelta ==
    /\ pc = "SubscribeDelta" /\ ~inCall
    /\ IF returnStatus = EXIT_SUCCESS
           THEN Issue(Call("SubscribeToTopic", "update/delta", 0)) /\ UNCHANGED pc
           ELSE Skip
    /\ UNCHANGED << transportVars, returnStatus, globals, packet, nInbound >>

SubscribeAccepted ==
    /\ pc = "SubscribeAccepted" /\ ~inCall
    /\ IF returnStatus = EXIT_SUCCESS
           THEN Issue(Call("SubscribeToTopic", "update/accepted", 0)) /\ UNCHANGED pc
           ELSE Skip
    /\ UNCHANGED << transportVars, returnStatus, globals, packet, nInbound >>

\* SubscribeRejected without the test of returnStatus.
SubscribeRejected_unconditional ==
    /\ pc = "SubscribeRejected" /\ ~inCall
    /\ Issue(Call("SubscribeToTopic", "update/rejected", 0)) /\ UNCHANGED pc
    /\ UNCHANGED << transportVars, returnStatus, globals, packet, nInbound >>


SubscribeRejected ==
    /\ pc = "SubscribeRejected" /\ ~inCall
    /\ IF returnStatus = EXIT_SUCCESS
           THEN Issue(Call("SubscribeToTopic", "update/rejected", 0)) /\ UNCHANGED pc
           ELSE Skip
    /\ UNCHANGED << transportVars, returnStatus, globals, packet, nInbound >>

\* The desired document, with powerOn 1 and a token taken from the clock, is
\* written to updateDocument and published with
\* SHADOW_DESIRED_JSON_LENGTH + 1 bytes.
PublishDesired ==
    /\ pc = "PublishDesired" /\ ~inCall
    /\ IF returnStatus = EXIT_SUCCESS
           THEN /\ \E ms \in DesiredClockMs :
                    updateDocument' =
                        snprintf(SHADOW_DESIRED_JSON_LENGTH + 1,
                                 SHADOW_DESIRED_JSON(1, ms % TokenModulus))
                /\ Issue(Call("PublishToTopic", "update", SHADOW_DESIRED_JSON_LENGTH + 1))
                /\ UNCHANGED pc
           ELSE Skip /\ UNCHANGED updateDocument
    /\ UNCHANGED << transportVars, returnStatus, statics, topics, packet, nInbound >>

\* PublishReported without the test of returnStatus.
PublishReported_ungated ==
    /\ pc = "PublishReported" /\ ~inCall
    /\ IF stateChanged
           THEN /\ \E ms \in ClockMs : clientToken' = ms % TokenModulus
                /\ updateDocument' =
                       snprintf(SHADOW_REPORTED_JSON_LENGTH + 1,
                                SHADOW_REPORTED_JSON(currentPowerOnState, clientToken'))
                /\ Issue(Call("PublishToTopic", "update", SHADOW_DESIRED_JSON_LENGTH + 1))
                /\ UNCHANGED pc
           ELSE Skip /\ UNCHANGED << clientToken, updateDocument >>
    /\ UNCHANGED << transportVars, returnStatus, currentPowerOnState, stateChanged,
                    eventCallbackError, currentVersion, packet, nInbound,
                    tokenLog, topics >>

\* if( stateChanged == true ): a new clientToken is taken from the clock,
\* the reported document is written to updateDocument from
\* currentPowerOnState and clientToken, and it is published.
PublishReported ==
    /\ pc = "PublishReported" /\ ~inCall
    /\ IF returnStatus = EXIT_SUCCESS /\ stateChanged
           THEN /\ \E ms \in ClockMs : clientToken' = ms % TokenModulus
                /\ updateDocument' =
                       snprintf(SHADOW_REPORTED_JSON_LENGTH + 1,
                                SHADOW_REPORTED_JSON(currentPowerOnState, clientToken'))
                /\ Issue(Call("PublishToTopic", "update", SHADOW_DESIRED_JSON_LENGTH + 1))
                /\ UNCHANGED pc
           ELSE Skip /\ UNCHANGED << clientToken, updateDocument >>
    /\ UNCHANGED << transportVars, returnStatus, currentPowerOnState, stateChanged,
                    eventCallbackError, currentVersion, packet, nInbound,
                    tokenLog, topics >>

\* UnsubscribeDelta without the test of returnStatus.
UnsubscribeDelta_unconditional ==
    /\ pc = "UnsubscribeDelta" /\ ~inCall
    /\ Issue(Call("UnsubscribeFromTopic", "update/delta", 0)) /\ UNCHANGED pc
    /\ UNCHANGED << transportVars, returnStatus, globals, packet, nInbound >>


UnsubscribeDelta ==
    /\ pc = "UnsubscribeDelta" /\ ~inCall
    /\ IF returnStatus = EXIT_SUCCESS
           THEN Issue(Call("UnsubscribeFromTopic", "update/delta", 0)) /\ UNCHANGED pc
           ELSE Skip
    /\ UNCHANGED << transportVars, returnStatus, globals, packet, nInbound >>

\* UnsubscribeAccepted without the test of returnStatus.
UnsubscribeAccepted_unconditional ==
    /\ pc = "UnsubscribeAccepted" /\ ~inCall
    /\ Issue(Call("UnsubscribeFromTopic", "update/accepted", 0)) /\ UNCHANGED pc
    /\ UNCHANGED << transportVars, returnStatus, globals, packet, nInbound >>


UnsubscribeAccepted ==
    /\ pc = "UnsubscribeAccepted" /\ ~inCall
    /\ IF returnStatus = EXIT_SUCCESS
           THEN Issue(Call("UnsubscribeFromTopic", "update/accepted", 0)) /\ UNCHANGED pc
           ELSE Skip
    /\ UNCHANGED << transportVars, returnStatus, globals, packet, nInbound >>

UnsubscribeRejected ==
    /\ pc = "UnsubscribeRejected" /\ ~inCall
    /\ IF returnStatus = EXIT_SUCCESS
           THEN Issue(Call("UnsubscribeFromTopic", "update/rejected", 0)) /\ UNCHANGED pc
           ELSE Skip
    /\ UNCHANGED << transportVars, returnStatus, globals, packet, nInbound >>

\* DisconnectMqttSession guarded by returnStatus like the steps before it.
DisconnectMqttSession_gated ==
    /\ pc = "DisconnectMqttSession" /\ ~inCall
    /\ IF returnStatus = EXIT_SUCCESS
           THEN Issue(Call("DisconnectMqttSession", "none", 0)) /\ UNCHANGED pc
           ELSE Skip
    /\ UNCHANGED << transportVars, returnStatus, globals, packet, nInbound >>

\* returnStatus = DisconnectMqttSession();  not conditional.
DisconnectMqttSession ==
    /\ pc = "DisconnectMqttSession" /\ ~inCall
    /\ Issue(Call("DisconnectMqttSession", "none", 0))
    /\ UNCHANGED << transportVars, pc, returnStatus, globals, packet, nInbound >>

\* The end of shadow_demo_main without the test of eventCallbackError.
CheckCallbackError_ignored ==
    /\ pc = "CheckCallbackError"
    /\ pc' = "done"
    /\ UNCHANGED << transportVars, returnStatus, inCall, globals, calls, packet, nInbound >>

\* if( eventCallbackError == true ) returnStatus = EXIT_FAILURE;
\* return returnStatus;
CheckCallbackError ==
    /\ pc = "CheckCallbackError"
    /\ returnStatus' = IF eventCallbackError THEN EXIT_FAILURE ELSE returnStatus
    /\ pc' = "done"
    /\ UNCHANGED << transportVars, inCall, globals, calls, packet, nInbound >>

Next ==
    \/ LoadTopicStrings
    \/ EstablishMqttSession
    \/ PublishDelete
    \/ SubscribeDelta
    \/ SubscribeAccepted
    \/ SubscribeRejected
    \/ PublishDesired
    \/ PublishReported
    \/ UnsubscribeDelta
    \/ UnsubscribeAccepted
    \/ UnsubscribeRejected
    \/ DisconnectMqttSession
    \/ CheckCallbackError
    \/ HelperReturn
    \/ EventCallback

Spec == Init /\ [][Next]_vars

TypeOK ==
    /\ inCall \in BOOLEAN
    /\ returnStatus \in Statuses
    /\ currentPowerOnState \in Nat
    /\ currentVersion \in Nat
    /\ clientToken \in 0..(TokenModulus - 1)
    /\ stateChanged \in BOOLEAN
    /\ eventCallbackError \in BOOLEAN
    /\ nInbound \in 0..MaxInbound
    /\ packet \in Packets \cup {NoPacket}
    /\ tokenLog \in {NoLog, LogInfoAccepted, LogWarnNotIdentical}
    /\ device_id \in DeviceIds \cup {IdNotRead}
    /\ ShadowTopicStrings \in {EmptyTopics, DerivedTopics}
    /\ Len(updateDocument) <= SHADOW_REPORTED_JSON_LENGTH

\* ========================================================= wolfssl_posix.c
\* The transport is called by the session helpers, one call at a time; it is
\* modelled by a specification of its own, Transport, in which a caller
\* issues Wolfssl_Connect and Wolfssl_Disconnect on one NetworkContext with
\* arguments of its choice, and the sockets wrapper and the TLS library
\* answer as they choose.  Wolfssl_Connect is one action per block of its
\* body.  The code under #if !defined( AzureSpherePlatform ) (set_verify,
\* the peer verification, wolfSSL_UseMaxFragment) is not compiled.

\* Largest number of transport calls of a behaviour.
MaxTransportCalls == 3

\* An entry of tlsTrace: the function that made the call, the function
\* called, and what it returned.
Entry(by, call, result) == [by |-> by, call |-> call, result |-> result]
WOLFSSL_SUCCESS == "WOLFSSL_SUCCESS"
WOLFSSL_FAILURE == "WOLFSSL_FAILURE"
WOLFSSL_SHUTDOWN_NOT_DONE == "WOLFSSL_SHUTDOWN_NOT_DONE"
ReturnsObject == "object"
ReturnsNull == "NULL"
ReturnsVoid == "void"
LoadResults == {WOLFSSL_SUCCESS, WOLFSSL_FAILURE}
PointerResult(h) == IF h = NULL THEN ReturnsNull ELSE ReturnsObject

convertToWolfsslStatus(socketStatus) ==
    CASE socketStatus = SOCKETS_SUCCESS -> WOLFSSL_SUCCEED
      [] socketStatus = SOCKETS_INVALID_PARAMETER -> WOLFSSL_INVALID_PARAMETER
      [] socketStatus = SOCKETS_DNS_FAILURE -> WOLFSSL_DNS_FAILURE
      [] socketStatus = SOCKETS_CONNECT_FAILURE -> WOLFSSL_CONNECT_FAILURE
      [] OTHER -> WOLFSSL_INVALID_PARAMETER

\* Sockets_Connect of the sockets wrapper: a NULL pServerInfo is a parameter
\* error found before anything is opened; otherwise the connection is
\* attempted and answers as the network chooses.
Sockets_Connect(pServerInfo, answer) ==
    IF pServerInfo = NULL
        THEN [socketStatus |-> SOCKETS_INVALID_PARAMETER, calls |-> << >>]
        ELSE [socketStatus |-> answer,
              calls |-> << Entry("Sockets_Connect", "connect", answer) >>]

\* Sockets_Disconnect of the sockets wrapper: an open socket is closed.
Sockets_Disconnect(socket) ==
    IF socket = OpenSocket THEN ClosedSocket ELSE socket

setRootCa(ret) ==
    [ sslStatus |-> IF ret # WOLFSSL_SUCCESS THEN 0 ELSE 1,
      calls |-> << Entry("setRootCa", "wolfSSL_CTX_load_verify_locations", ret) >>
                \o IF AzureSpherePlatform
                       THEN << Entry("setRootCa", "free( pRootCaPath )", ReturnsVoid) >>
                       ELSE << >> ]

setClientCertificate(ret) ==
    [ sslStatus |-> IF ret # WOLFSSL_SUCCESS THEN 0 ELSE 1,
      calls |-> << Entry("setClientCertificate",
                         "wolfSSL_CTX_use_certificate_chain_file", ret) >> ]

setPrivateKey(ret) ==
    [ sslStatus |-> IF ret # WOLFSSL_SUCCESS THEN 0 ELSE 1,
      calls |-> << Entry("setPrivateKey", "wolfSSL_CTX_use_PrivateKey_file", ret) >>
                \o IF AzureSpherePlatform
                       THEN << Entry("setPrivateKey", "free( pPrivateKeyPath )", ReturnsVoid) >>
                       ELSE << >> ]

\* One conditional call of setCredentials: r is the status and the calls so
\* far, s what the import returns.
Then(r, s) == [sslStatus |-> s.sslStatus, calls |-> r.calls \o s.calls]

\* setCredentials importing the client certificate and the private key only
\* when both paths are given.
setCredentials_both(c, rets) ==
    LET both == c.pClientCertPath # NULL /\ c.pPrivateKeyPath # NULL
        root == IF c.pRootCaPath # NULL
                    THEN setRootCa(rets.rootCa)
                    ELSE [sslStatus |-> 0, calls |-> << >>]
        cert == IF root.sslStatus = 1 /\ both
                    THEN Then(root, setClientCertificate(rets.cert))
                    ELSE root
    IN  IF cert.sslStatus = 1 /\ both
            THEN Then(cert, setPrivateKey(rets.key))
            ELSE cert

\* setCredentials with sslStatus initialised to 1: no root CA is no failure.
setCredentials_optionalCa(c, rets) ==
    LET root == IF c.pRootCaPath # NULL
                    THEN setRootCa(rets.rootCa)
                    ELSE [sslStatus |-> 1, calls |-> << >>]
        cert == IF root.sslStatus = 1 /\ c.pClientCertPath # NULL
                    THEN Then(root, setClientCertificate(rets.cert))
                    ELSE root
    IN  IF cert.sslStatus = 1 /\ c.pPrivateKeyPath # NULL
            THEN Then(cert, setPrivateKey(rets.key))
            ELSE cert

\* c is *pWolfsslCredentials; rets is what the three imports return if called.
setCredentials(c, rets) ==
    LET root == IF c.pRootCaPath # NULL
                    THEN setRootCa(rets.rootCa)
                    ELSE [sslStatus |-> 0, calls |-> << >>]
        cert == IF root.sslStatus = 1 /\ c.pClientCertPath # NULL
                    THEN Then(root, setClientCertificate(rets.cert))
                    ELSE root
    IN  IF cert.sslStatus = 1 /\ c.pPrivateKeyPath # NULL
            THEN Then(cert, setPrivateKey(rets.key))
            ELSE cert

\* setOptionalConfigurations that sets the SNI whether or not a host name
\* is given.
setOptionalConfigurations_always(c, rets) ==
    (IF c.pAlpnProtos # NULL /\ c.alpnProtosLen > 0
         THEN << Entry("setOptionalConfigurations", "wolfSSL_UseALPN", rets.alpn) >>
         ELSE << >>)
    \o (IF c.maxFragmentLength > 0 /\ ~AzureSpherePlatform
            THEN << Entry("setOptionalConfigurations", "wolfSSL_UseMaxFragment", rets.mfln) >>
            ELSE << >>)
    \o << Entry("setOptionalConfigurations", "wolfSSL_UseSNI", rets.sni) >>

\* The calls of setOptionalConfigurations, which returns nothing: ALPN, the
\* maximum fragment length (not on Azure Sphere), SNI.
setOptionalConfigurations(c, rets) ==
    (IF c.pAlpnProtos # NULL /\ c.alpnProtosLen > 0
         THEN << Entry("setOptionalConfigurations", "wolfSSL_UseALPN", rets.alpn) >>
         ELSE << >>)
    \o (IF c.maxFragmentLength > 0 /\ ~AzureSpherePlatform
            THEN << Entry("setOptionalConfigurations", "wolfSSL_UseMaxFragment", rets.mfln) >>
            ELSE << >>)
    \o (IF c.sniHostName # NULL
            THEN << Entry("setOptionalConfigurations", "wolfSSL_UseSNI", rets.sni) >>
            ELSE << >>)

\* ---------------------------------------------------------- Wolfssl_Connect
\* What the blocks of Wolfssl_Connect leave alone.
connectFrame == << shadowVars, tlsOp, tlsArgs, nTransport, channelRet,
                  bytesTransferred >>

\* Wolfssl_Connect without the test of pWolfsslCredentials.
Wolfssl_Connect_unchecked ==
    /\ tlsPc = Idle
    /\ nTransport < MaxTransportCalls
    /\ socketDescriptor # OpenSocket
    /\ \E a \in ConnectArgs :
        /\ tlsArgs' = a
        /\ wolfsslStatus' =
              IF a.pNetworkContext = NULL
                  THEN WOLFSSL_INVALID_PARAMETER
                  ELSE WOLFSSL_SUCCEED
    /\ tlsOp' = "Wolfssl_Connect"
    /\ tlsPc' = "Sockets_Connect"
    /\ sslObjectCreated' = 0
    /\ pSslContext' = NULL
    /\ tlsTrace' = << >>
    /\ nTransport' = nTransport + 1
    /\ UNCHANGED << shadowVars, socketDescriptor, pSsl, channelRet,
                    bytesTransferred >>

\* The call and the validation of the parameters.  The callers connect a
\* NetworkContext whose socket is not open.
Wolfssl_Connect ==
    /\ tlsPc = Idle
    /\ nTransport < MaxTransportCalls
    /\ socketDescriptor # OpenSocket
    /\ \E a \in ConnectArgs :
        /\ tlsArgs' = a
        /\ wolfsslStatus' =
              IF a.pNetworkContext = NULL
                  THEN WOLFSSL_INVALID_PARAMETER
                  ELSE IF a.pWolfsslCredentials = NULL
                           THEN WOLFSSL_INVALID_PARAMETER
                           ELSE WOLFSSL_SUCCEED
    /\ tlsOp' = "Wolfssl_Connect"
    /\ tlsPc' = "Sockets_Connect"
    /\ sslObjectCreated' = 0
    /\ pSslContext' = NULL
    /\ tlsTrace' = << >>
    /\ nTransport' = nTransport + 1
    /\ UNCHANGED << shadowVars, socketDescriptor, pSsl, channelRet,
                    bytesTransferred >>

\* Establish a TCP connection with the server.
ConnectTcp ==
    /\ tlsPc = "Sockets_Connect"
    /\ IF wolfsslStatus = WOLFSSL_SUCCEED
           THEN \E answer \in SocketStatuses :
                   LET r == Sockets_Connect(tlsArgs.pServerInfo, answer)
                   IN  /\ socketDescriptor' =
                             IF r.socketStatus = SOCKETS_SUCCESS
                                 THEN OpenSocket
                                 ELSE socketDescriptor
                       /\ wolfsslStatus' = convertToWolfsslStatus(r.socketStatus)
                       /\ tlsTrace' = tlsTrace \o r.calls \o
                             << Entry("Wolfssl_Connect", "Sockets_Connect",
                                      r.socketStatus) >>
           ELSE UNCHANGED << socketDescriptor, wolfsslStatus, tlsTrace >>
    /\ tlsPc' = "wolfSSL_CTX_new"
    /\ UNCHANGED << connectFrame, sslObjectCreated, pSslContext, pSsl >>

\* Create the SSL context.
ConnectCtxNew ==
    /\ tlsPc = "wolfSSL_CTX_new"
    /\ IF wolfsslStatus = WOLFSSL_SUCCEED
           THEN \E h \in {NULL, Live} :
                   /\ pSslContext' = h
                   /\ wolfsslStatus' =
                         IF h = NULL THEN WOLFSSL_API_ERROR ELSE wolfsslStatus
                   /\ tlsTrace' = Append(tlsTrace,
                         Entry("Wolfssl_Connect", "wolfSSL_CTX_new", PointerResult(h)))
           ELSE UNCHANGED << pSslContext, wolfsslStatus, tlsTrace >>
    /\ tlsPc' = "setCredentials"
    /\ UNCHANGED << connectFrame, sslObjectCreated, socketDescriptor, pSsl >>

\* Set up the credentials.
ConnectSetCredentials ==
    /\ tlsPc = "setCredentials"
    /\ IF wolfsslStatus = WOLFSSL_SUCCEED
           THEN \E rets \in [rootCa : LoadResults, cert : LoadResults,
                             key : LoadResults] :
                   LET r == setCredentials(tlsArgs.credentials, rets)
                   IN  /\ wolfsslStatus' =
                             IF r.sslStatus # 1
                                 THEN WOLFSSL_INVALID_CREDENTIALS
                                 ELSE wolfsslStatus
                       /\ tlsTrace' = tlsTrace \o r.calls \o
                             << Entry("Wolfssl_Connect", "setCredentials",
                                      IF r.sslStatus # 1 THEN WOLFSSL_FAILURE
                                                         ELSE WOLFSSL_SUCCESS) >>
           ELSE UNCHANGED << wolfsslStatus, tlsTrace >>
    /\ tlsPc' = "wolfSSL_new"
    /\ UNCHANGED << connectFrame, sslObjectCreated, pSslContext,
                    socketDescriptor, pSsl >>

\* Create the SSL object; its address is stored in pNetworkContext->pSsl.
ConnectSslNew ==
    /\ tlsPc = "wolfSSL_new"
    /\ IF wolfsslStatus = WOLFSSL_SUCCEED
           THEN \E h \in {NULL, Live} :
                   /\ pSsl' = h
                   /\ wolfsslStatus' =
                         IF h = NULL THEN WOLFSSL_API_ERROR ELSE wolfsslStatus
                   /\ sslObjectCreated' = IF h = NULL THEN sslObjectCreated ELSE 1
                   /\ tlsTrace' = Append(tlsTrace,
                         Entry("Wolfssl_Connect", "wolfSSL_new", PointerResult(h)))
           ELSE UNCHANGED << pSsl, wolfsslStatus, sslObjectCreated, tlsTrace >>
    /\ tlsPc' = "wolfSSL_set_fd"
    /\ UNCHANGED << connectFrame, pSslContext, socketDescriptor >>

\* Bind the SSL object to the socket.
ConnectSetFd ==
    /\ tlsPc = "wolfSSL_set_fd"
    /\ IF wolfsslStatus = WOLFSSL_SUCCEED
           THEN \E ret \in LoadResults :
                   /\ wolfsslStatus' =
                         IF ret # WOLFSSL_SUCCESS THEN WOLFSSL_API_ERROR
                                                  ELSE wolfsslStatus
                   /\ tlsTrace' = Append(tlsTrace,
                         Entry("Wolfssl_Connect", "wolfSSL_set_fd", ret))
           ELSE UNCHANGED << wolfsslStatus, tlsTrace >>
    /\ tlsPc' = "wolfSSL_connect"
    /\ UNCHANGED << connectFrame, sslObjectCreated, pSslContext,
                    socketDescriptor, pSsl >>

\* ConnectHandshake without the test of returnStatus.
ConnectHandshake_ungated ==
    /\ tlsPc = "wolfSSL_connect"
    /\ IF TRUE
           THEN \E rets \in [alpn : LoadResults, mfln : LoadResults,
                             sni : LoadResults],
                   ret \in LoadResults :
                   /\ wolfsslStatus' =
                         IF ret # WOLFSSL_SUCCESS THEN WOLFSSL_HANDSHAKE_FAILED
                                                  ELSE wolfsslStatus
                   /\ tlsTrace' = tlsTrace
                         \o setOptionalConfigurations(tlsArgs.credentials, rets)
                         \o << Entry("Wolfssl_Connect", "setOptionalConfigurations",
                                     ReturnsVoid),
                               Entry("Wolfssl_Connect", "wolfSSL_connect", ret) >>
           ELSE UNCHANGED << wolfsslStatus, tlsTrace >>
    /\ tlsPc' = "cleanup"
    /\ UNCHANGED << connectFrame, sslObjectCreated, pSslContext,
                    socketDescriptor, pSsl >>

\* Set the optional configurations and perform the TLS handshake.
ConnectHandshake ==
    /\ tlsPc = "wolfSSL_connect"
    /\ IF wolfsslStatus = WOLFSSL_SUCCEED
           THEN \E rets \in [alpn : LoadResults, mfln : LoadResults,
                             sni : LoadResults],
                   ret \in LoadResults :
                   /\ wolfsslStatus' =
                         IF ret # WOLFSSL_SUCCESS THEN WOLFSSL_HANDSHAKE_FAILED
                                                  ELSE wolfsslStatus
                   /\ tlsTrace' = tlsTrace
                         \o setOptionalConfigurations(tlsArgs.credentials, rets)
                         \o << Entry("Wolfssl_Connect", "setOptionalConfigurations",
                                     ReturnsVoid),
                               Entry("Wolfssl_Connect", "wolfSSL_connect", ret) >>
           ELSE UNCHANGED << wolfsslStatus, tlsTrace >>
    /\ tlsPc' = "cleanup"
    /\ UNCHANGED << connectFrame, sslObjectCreated, pSslContext,
                    socketDescriptor, pSsl >>

\* ConnectCleanup that frees the SSL object and keeps its address in pSsl.
ConnectCleanup_dangling ==
    /\ tlsPc = "cleanup"
    /\ LET freeContext == pSslContext # NULL
           freeObject == wolfsslStatus # WOLFSSL_SUCCEED /\ sslObjectCreated = 1
       IN  /\ pSslContext' = IF freeContext THEN Freed ELSE pSslContext
           /\ pSsl' = IF freeObject THEN Freed ELSE pSsl
           /\ tlsTrace' = tlsTrace
                 \o (IF freeContext
                         THEN << Entry("Wolfssl_Connect", "wolfSSL_CTX_free",
                                       ReturnsVoid) >>
                         ELSE << >>)
                 \o (IF freeObject
                         THEN << Entry("Wolfssl_Connect", "wolfSSL_free",
                                       ReturnsVoid) >>
                         ELSE << >>)
    /\ tlsPc' = Idle
    /\ UNCHANGED << connectFrame, wolfsslStatus, sslObjectCreated,
                    socketDescriptor >>

\* ConnectCleanup that frees the SSL context only when the connection succeeded.
ConnectCleanup_onSuccess ==
    /\ tlsPc = "cleanup"
    /\ LET freeContext == pSslContext # NULL /\ wolfsslStatus = WOLFSSL_SUCCEED
           freeObject == wolfsslStatus # WOLFSSL_SUCCEED /\ sslObjectCreated = 1
       IN  /\ pSslContext' = IF freeContext THEN Freed ELSE pSslContext
           /\ pSsl' = IF freeObject THEN NULL ELSE pSsl
           /\ tlsTrace' = tlsTrace
                 \o (IF freeContext
                         THEN << Entry("Wolfssl_Connect", "wolfSSL_CTX_free",
                                       ReturnsVoid) >>
                         ELSE << >>)
                 \o (IF freeObject
                         THEN << Entry("Wolfssl_Connect", "wolfSSL_free",
                                       ReturnsVoid) >>
                         ELSE << >>)
    /\ tlsPc' = Idle
    /\ UNCHANGED << connectFrame, wolfsslStatus, sslObjectCreated,
                    socketDescriptor >>

\* Free the SSL context, clean up on error, and return.
ConnectCleanup ==
    /\ tlsPc = "cleanup"
    /\ LET freeContext == pSslContext # NULL
           freeObject == wolfsslStatus # WOLFSSL_SUCCEED /\ sslObjectCreated = 1
       IN  /\ pSslContext' = IF freeContext THEN Freed ELSE pSslContext
           /\ pSsl' = IF freeObject THEN NULL ELSE pSsl
           /\ tlsTrace' = tlsTrace
                 \o (IF freeContext
                         THEN << Entry("Wolfssl_Connect", "wolfSSL_CTX_free",
                                       ReturnsVoid) >>
                         ELSE << >>)
                 \o (IF freeObject
                         THEN << Entry("Wolfssl_Connect", "wolfSSL_free",
                                       ReturnsVoid) >>
                         ELSE << >>)
    /\ tlsPc' = Idle
    /\ UNCHANGED << connectFrame, wolfsslStatus, sslObjectCreated,
                    socketDescriptor >>

\* ------------------------------------------------------- Wolfssl_Disconnect
ShutdownResults == {WOLFSSL_SUCCESS, WOLFSSL_SHUTDOWN_NOT_DONE, WOLFSSL_FAILURE}
DisconnectAnswers == {SOCKETS_SUCCESS, SOCKETS_INVALID_PARAMETER}

\* shutdownCalls with the second wolfSSL_shutdown not under a condition.
shutdownCalls_twice(first, second) ==
    << Entry("Wolfssl_Disconnect", "wolfSSL_shutdown", first),
       Entry("Wolfssl_Disconnect", "wolfSSL_shutdown", second),
       Entry("Wolfssl_Disconnect", "wolfSSL_free", ReturnsVoid) >>

\* The calls of the block under pNetworkContext->pSsl != NULL.
shutdownCalls(first, second) ==
    << Entry("Wolfssl_Disconnect", "wolfSSL_shutdown", first) >>
    \o (IF first = WOLFSSL_SHUTDOWN_NOT_DONE
            THEN << Entry("Wolfssl_Disconnect", "wolfSSL_shutdown", second) >>
            ELSE << >>)
    \o << Entry("Wolfssl_Disconnect", "wolfSSL_free", ReturnsVoid) >>

\* Wolfssl_Disconnect without the test of pNetworkContext.
Wolfssl_Disconnect_unchecked ==
    /\ tlsPc = Idle
    /\ nTransport < MaxTransportCalls
    /\ tlsOp' = "Wolfssl_Disconnect"
    /\ nTransport' = nTransport + 1
    /\ \E n \in Pointers, first \in ShutdownResults, second \in ShutdownResults,
          answer \in DisconnectAnswers, stops \in BOOLEAN :
        /\ tlsArgs' = [NoArgs EXCEPT !.pNetworkContext = n]
        /\ IF pSsl = Freed /\ stops
               THEN /\ tlsPc' = Crashed
                    /\ tlsTrace' = << Entry("Wolfssl_Disconnect",
                                            "wolfSSL_shutdown", Crashed) >>
                    /\ UNCHANGED << wolfsslStatus, pSsl, socketDescriptor >>
               ELSE /\ pSsl' = IF pSsl # NULL THEN Freed ELSE pSsl
                    /\ socketDescriptor' = Sockets_Disconnect(socketDescriptor)
                    /\ wolfsslStatus' = convertToWolfsslStatus(answer)
                    /\ tlsTrace' =
                          (IF pSsl # NULL THEN shutdownCalls(first, second)
                                          ELSE << >>)
                          \o << Entry("Wolfssl_Disconnect",
                                      "Sockets_Disconnect", answer) >>
                    /\ UNCHANGED tlsPc
    /\ UNCHANGED << shadowVars, sslObjectCreated, pSslContext, channelRet,
                    bytesTransferred >>

\* The whole function.  pNetworkContext points to const: wolfSSL_free frees
\* the object and pSsl keeps its address.  With pSsl the address of a freed
\* object, wolfSSL_shutdown and wolfSSL_free use freed memory: the call
\* either stops the program or goes on as with a live object.
Wolfssl_Disconnect ==
    /\ tlsPc = Idle
    /\ nTransport < MaxTransportCalls
    /\ tlsOp' = "Wolfssl_Disconnect"
    /\ nTransport' = nTransport + 1
    /\ \E n \in Pointers, first \in ShutdownResults, second \in ShutdownResults,
          answer \in DisconnectAnswers, stops \in BOOLEAN :
        /\ tlsArgs' = [NoArgs EXCEPT !.pNetworkContext = n]
        /\ IF n = NULL
               THEN /\ wolfsslStatus' = convertToWolfsslStatus(SOCKETS_INVALID_PARAMETER)
                    /\ tlsTrace' = << >>
                    /\ UNCHANGED << tlsPc, pSsl, socketDescriptor >>
               ELSE IF pSsl = Freed /\ stops
                        THEN /\ tlsPc' = Crashed
                             /\ tlsTrace' = << Entry("Wolfssl_Disconnect",
                                                     "wolfSSL_shutdown", Crashed) >>
                             /\ UNCHANGED << wolfsslStatus, pSsl, socketDescriptor >>
                        ELSE /\ pSsl' = IF pSsl # NULL THEN Freed ELSE pSsl
                             /\ socketDescriptor' = Sockets_Disconnect(socketDescriptor)
                             /\ wolfsslStatus' = convertToWolfsslStatus(answer)
                             /\ tlsTrace' =
                                   (IF pSsl # NULL THEN shutdownCalls(first, second)
                                                   ELSE << >>)
                                   \o << Entry("Wolfssl_Disconnect",
                                               "Sockets_Disconnect", answer) >>
                             /\ UNCHANGED tlsPc
    /\ UNCHANGED << shadowVars, sslObjectCreated, pSslContext, channelRet,
                    bytesTransferred >>

\* ------------------------------------------- Wolfssl_Recv and Wolfssl_Send
\* What wolfSSL_read and wolfSSL_write return: a number of bytes, 0, or a
\* negative value; and what wolfSSL_get_error then tells.
ChannelReturns == -1..1
WOLFSSL_ERROR_WANT_READ == "WOLFSSL_ERROR_WANT_READ"
WOLFSSL_ERROR_WANT_WRITE == "WOLFSSL_ERROR_WANT_WRITE"
WOLFSSL_ERROR_ZERO_RETURN == "WOLFSSL_ERROR_ZERO_RETURN"
OtherSslError == "other SSL error"
SslErrors ==
    { WOLFSSL_ERROR_WANT_READ, WOLFSSL_ERROR_WANT_WRITE,
      WOLFSSL_ERROR_ZERO_RETURN, OtherSslError }
ReturnsBytes == "bytes"
ReturnsNoBytes == "no bytes"

\* The calls of a read or write on the SSL object, and of wolfSSL_get_error
\* when it transferred nothing.
channelCalls(by, call, ret, sslError) ==
    << Entry(by, call, IF ret <= 0 THEN ReturnsNoBytes ELSE ReturnsBytes) >>
    \o (IF ret <= 0 THEN << Entry(by, "wolfSSL_get_error", sslError) >> ELSE << >>)

\* bytesReceived after the handling of a read that did not succeed.
bytesReceived(ret, sslError) ==
    IF ret <= 0
        THEN IF sslError = WOLFSSL_ERROR_WANT_READ THEN 0 ELSE ret
        ELSE ret

\* bytesSent after the handling of a write that did not succeed: the error
\* is logged and the value is kept.
bytesSent(ret, sslError) == ret

\* A call of Wolfssl_Recv or Wolfssl_Send.  bytes is the local that is
\* returned, initialised to 0 and assigned only when pNetworkContext and
\* pSsl are not NULL.  With pSsl the address of a freed object the read or
\* write uses freed memory: the call stops the program or goes on.
Transfer(op, call) ==
    /\ tlsPc = Idle
    /\ nTransport < MaxTransportCalls
    /\ tlsOp' = op
    /\ nTransport' = nTransport + 1
    /\ \E n \in Pointers, ret \in ChannelReturns, sslError \in SslErrors,
          stops \in BOOLEAN :
        /\ tlsArgs' = [NoArgs EXCEPT !.pNetworkContext = n]
        /\ IF n = NULL \/ pSsl = NULL
               THEN /\ bytesTransferred' = 0
                    /\ channelRet' = 0
                    /\ tlsTrace' = << >>
                    /\ UNCHANGED tlsPc
               ELSE IF pSsl = Freed /\ stops
                        THEN /\ tlsPc' = Crashed
                             /\ tlsTrace' = << Entry(op, call, Crashed) >>
                             /\ bytesTransferred' = 0
                             /\ channelRet' = 0
                        ELSE /\ channelRet' = ret
                             /\ bytesTransferred' =
                                    IF op = "Wolfssl_Recv"
                                        THEN bytesReceived(ret, sslError)
                                        ELSE bytesSent(ret, sslError)
                             /\ tlsTrace' = channelCalls(op, call, ret, sslError)
                             /\ UNCHANGED tlsPc
    /\ UNCHANGED << shadowVars, wolfsslStatus, sslObjectCreated, pSslContext,
                    socketDescriptor, pSsl >>

Wolfssl_Recv == Transfer("Wolfssl_Recv", "wolfSSL_read")

Wolfssl_Send == Transfer("Wolfssl_Send", "wolfSSL_write")

TransportNext ==
    \/ Wolfssl_Connect
    \/ ConnectTcp
    \/ ConnectCtxNew
    \/ ConnectSetCredentials
    \/ ConnectSslNew
    \/ ConnectSetFd
    \/ ConnectHandshake
    \/ ConnectCleanup
    \/ Wolfssl_Disconnect
    \/ Wolfssl_Recv
    \/ Wolfssl_Send

Transport == Init /\ [][TransportNext]_vars

TransportTypeOK ==
    /\ tlsPc \in {Idle, Crashed, "Sockets_Connect", "wolfSSL_CTX_new",
                  "setCredentials", "wolfSSL_new", "wolfSSL_set_fd",
                  "wolfSSL_connect", "cleanup"}
    /\ tlsOp \in {NoOp, "Wolfssl_Connect", "Wolfssl_Disconnect", "Wolfssl_Recv",
                 "Wolfssl_Send"}
    /\ tlsArgs \in TransportArgs
    /\ wolfsslStatus \in WolfsslStatuses
    /\ sslObjectCreated \in {0, 1}
    /\ pSslContext \in Handles
    /\ socketDescriptor \in Sockets
    /\ pSsl \in Handles
    /\ nTransport \in 0..MaxTransportCalls
    /\ channelRet \in ChannelReturns
    /\ bytesTransferred \in ChannelReturns

\* ============================================================== properties

\* An eventCallback invocation for a publish on update/delta, as a step.
DeltaStep ==
    /\ nInbound' = nInbound + 1
    /\ packet'.type = "PUBLISH"
    /\ packet'.topic = "ShadowMessageTypeUpdateDelta"

\* The latest eventCallback invocation was for a publish on update/delta.
DeltaHandled ==
    /\ packet.type = "PUBLISH"
    /\ packet.topic = "ShadowMessageTypeUpdateDelta"

IsForward(c) == c.op \in {"PublishToTopic", "SubscribeToTopic"}
IsUnsubscribe(c) == c.op = "UnsubscribeFromTopic"

\* The calls that satisfy Test, in the order they were issued.
Forward == SelectSeq(calls, IsForward)
Unsubscribes == SelectSeq(calls, IsUnsubscribe)
Count(op) == Cardinality({ i \in DOMAIN calls : calls[i].op = op })

Established == Len(calls) >= 1 /\ calls[1].status = EXIT_SUCCESS
ForwardFailed == \E i \in DOMAIN Forward : Forward[i].status = EXIT_FAILURE
\* Delete publish, three subscribes and desired publish were issued, and
\* every forward call, the reported publish included, returned success.
ForwardSucceeded ==
    /\ Established
    /\ Len(Forward) >= 5
    /\ \A i \in DOMAIN Forward : Forward[i].status = EXIT_SUCCESS

\* The forward sequence as shadow_demo_main writes it down.
ForwardOrder ==
    << [op |-> "PublishToTopic",   topic |-> "delete",          len |-> 0],
       [op |-> "SubscribeToTopic", topic |-> "update/delta",    len |-> 0],
       [op |-> "SubscribeToTopic", topic |-> "update/accepted", len |-> 0],
       [op |-> "SubscribeToTopic", topic |-> "update/rejected", len |-> 0],
       [op |-> "PublishToTopic",   topic |-> "update",
        len |-> SHADOW_DESIRED_JSON_LENGTH + 1],
       [op |-> "PublishToTopic",   topic |-> "update",
        len |-> SHADOW_DESIRED_JSON_LENGTH + 1] >>
UnwindOrder == << "update/delta", "update/accepted", "update/rejected" >>

\* C1: a valid delta whose numeric version is not greater than the stored
\* version leaves currentPowerOnState and stateChanged as they were.
C1_StaleDeltaDiscarded ==
    [][ ( /\ DeltaStep
          /\ packet'.doc.valid
          /\ IsNumeric(packet'.doc.version)
          /\ strtoul(packet'.doc.version) <= currentVersion )
        => ( /\ currentPowerOnState' = currentPowerOnState
             /\ stateChanged' = stateChanged ) ]_vars

\* C2: the run returns success exactly if every forward step succeeded and
\* eventCallbackError is unset.
C2_SuccessIffForwardSucceeded ==
    pc = "done" =>
        ( returnStatus = EXIT_SUCCESS <=> (ForwardSucceeded /\ ~eventCallbackError) )

\* C3: currentVersion never decreases.
C3_VersionMonotonic ==
    [][ currentVersion' >= currentVersion ]_vars

\* A delta with a version below the stored one has been handled.
C3_Witness ==
    /\ DeltaHandled
    /\ packet.doc.valid
    /\ IsNumeric(packet.doc.version)
    /\ strtoul(packet.doc.version) < currentVersion

\* C4: a valid delta with numeric version v above the stored version and
\* numeric state.powerOn p makes v the stored version; p replaces the power
\* state and sets stateChanged when it differs, and changes neither when it
\* does not; eventCallbackError keeps its value.
C4_NewerDeltaAdopted ==
    [][ ( /\ DeltaStep
          /\ packet'.doc.valid
          /\ IsNumeric(packet'.doc.version)
          /\ IsNumeric(packet'.doc.powerOn)
          /\ strtoul(packet'.doc.version) > currentVersion )
        => LET v == strtoul(packet'.doc.version)
               p == strtoul(packet'.doc.powerOn)
           IN  /\ currentVersion' = v
               /\ p # currentPowerOnState =>
                      (currentPowerOnState' = p /\ stateChanged' = TRUE)
               /\ p = currentPowerOnState =>
                      (currentPowerOnState' = p /\ stateChanged' = stateChanged)
               /\ eventCallbackError' = eventCallbackError ]_vars

\* The first packet of the run was a delta with a two-digit version and a
\* power state other than the initial one, and it has been adopted.
C4_Witness ==
    /\ nInbound = 1
    /\ DeltaHandled
    /\ packet.doc.valid
    /\ IsNumeric(packet.doc.version)
    /\ IsNumeric(packet.doc.powerOn)
    /\ Len(packet.doc.version) > 1
    /\ currentVersion = strtoul(packet.doc.version)
    /\ currentPowerOnState = strtoul(packet.doc.powerOn)
    /\ currentPowerOnState # 0
    /\ stateChanged
    /\ ~eventCallbackError

\* C5: a delta that is not valid JSON or has no version sets
\* eventCallbackError and leaves currentPowerOnState, currentVersion and
\* stateChanged as they were.
C5_MalformedDeltaFlagged ==
    [][ ( /\ DeltaStep
          /\ (~packet'.doc.valid \/ packet'.doc.version = NULL) )
        => ( /\ eventCallbackError' = TRUE
             /\ currentPowerOnState' = currentPowerOnState
             /\ currentVersion' = currentVersion
             /\ stateChanged' = stateChanged ) ]_vars

\* A valid delta without version but with a power state other than the
\* local one has been handled while the stored version was not 0.
C5_Witness ==
    /\ DeltaHandled
    /\ packet.doc.valid
    /\ packet.doc.version = NULL
    /\ IsNumeric(packet.doc.powerOn)
    /\ strtoul(packet.doc.powerOn) # currentPowerOnState
    /\ currentVersion > 0
    /\ eventCallbackError

\* C6: DisconnectMqttSession is never called twice, and a run that
\* established the session has called it, and it has returned, when
\* shadow_demo_main returns.
C6_DisconnectExactlyOnce ==
    /\ Count("DisconnectMqttSession") <= 1
    /\ (pc = "done" /\ Established) =>
           /\ Count("DisconnectMqttSession") = 1
           /\ calls[Len(calls)].op = "DisconnectMqttSession"
           /\ calls[Len(calls)].status # Pending

\* A run has returned in which a forward step failed and the session was
\* disconnected.
C6_Witness ==
    /\ pc = "done"
    /\ Established
    /\ ForwardFailed
    /\ Count("DisconnectMqttSession") = 1

C9_ForwardSequenceGated ==
    /\ Len(Forward) <= Len(ForwardOrder)
    /\ \A i \in DOMAIN Forward :
           /\ Forward[i].op = ForwardOrder[i].op
           /\ Forward[i].topic = ForwardOrder[i].topic
           /\ Forward[i].len = ForwardOrder[i].len
           /\ i < Len(Forward) => Forward[i].status = EXIT_SUCCESS
    /\ \A i \in DOMAIN calls :
           /\ i < Len(calls) => calls[i].status # Pending
           /\ (IsForward(calls[i]) /\ i > 1) =>
                  (IsForward(calls[i - 1]) \/ calls[i - 1].op = "EstablishMqttSession")
    /\ Len(Forward) > 0 => Established
    /\ Len(Forward) = Len(ForwardOrder) => stateChanged

\* A run has returned in which the second subscribe failed: it is the last
\* forward call.
C9_Witness ==
    /\ pc = "done"
    /\ Len(Forward) = 3
    /\ Forward[3].status = EXIT_FAILURE

\* C10: once eventCallbackError has been set, the run returns failure.
C10_CallbackErrorFailsRun ==
    [](eventCallbackError => [](pc = "done" => returnStatus = EXIT_FAILURE))

\* A run has returned failure although every call, the disconnect included,
\* returned success: eventCallbackError alone made it fail.
C10_Witness ==
    /\ pc = "done"
    /\ eventCallbackError
    /\ returnStatus = EXIT_FAILURE
    /\ Count("DisconnectMqttSession") = 1
    /\ \A i \in DOMAIN calls : calls[i].status = EXIT_SUCCESS

\* An eventCallback step that handled a publish on the update/accepted topic.
AcceptedStep ==
    /\ nInbound' = nInbound + 1
    /\ packet'.type = "PUBLISH"
    /\ packet'.topic = "ShadowMessageTypeUpdateAccepted"

AcceptedHandled ==
    /\ packet.type = "PUBLISH"
    /\ packet.topic = "ShadowMessageTypeUpdateAccepted"

\* C11: eventCallbackError is a latch: no step of the demo (a handler
\* invocation, a publish, a subscribe, an unsubscribe, the disconnect, the
\* final test) takes it from true back to false.
C11_CallbackErrorLatch ==
    [][eventCallbackError => eventCallbackError']_vars

\* The flag was set by the first inbound packet, a second packet (a valid
\* accepted document with a token) was handled after it, the run went on to
\* its end, and the flag is still set.
C11_Witness ==
    /\ pc = "done"
    /\ nInbound = 2
    /\ AcceptedHandled
    /\ packet.doc.valid
    /\ packet.doc.clientToken # NULL
    /\ Count("DisconnectMqttSession") = 1
    /\ eventCallbackError

\* C12: when updateAcceptedHandler handles a valid document that carries a
\* clientToken, the call leaves eventCallbackError and returnStatus as they
\* were; a token that is the decimal text of clientToken (the token of the
\* latest reported publish) is logged as accepted, and a decimal token that
\* is another number is logged with the warning only.
C12_TokenMismatchOnlyLogged ==
    [][(AcceptedStep /\ packet'.doc.valid /\ packet'.doc.clientToken # NULL) =>
          /\ eventCallbackError' = eventCallbackError
          /\ returnStatus' = returnStatus
          /\ (packet'.doc.clientToken = Decimal(clientToken)
                  => tokenLog' = LogInfoAccepted)
          /\ (IsNumeric(packet'.doc.clientToken)
                /\ packet'.doc.clientToken # Decimal(clientToken)
                  => tokenLog' = LogWarnNotIdentical)]_vars

\* A reported publish recorded token 1, an accepted document with token 10
\* came in after it and was logged with the warning, and the run ended with
\* success and the flag clear.
C12_Witness ==
    /\ pc = "done"
    /\ AcceptedHandled
    /\ packet.doc.clientToken = Decimal(10)
    /\ clientToken = 1
    /\ tokenLog = LogWarnNotIdentical
    /\ ~eventCallbackError
    /\ returnStatus = EXIT_SUCCESS

\* ------------------------------------------------------ transport properties
ConnectReturned == tlsPc = Idle /\ tlsOp = "Wolfssl_Connect"

\* Some call of the trace, or some call with a given result.
Called(call) == \E i \in DOMAIN tlsTrace : tlsTrace[i].call = call
Returned(call, result) ==
    \E i \in DOMAIN tlsTrace :
        tlsTrace[i].call = call /\ tlsTrace[i].result = result
CountCalls(call) ==
    Cardinality({ i \in DOMAIN tlsTrace : tlsTrace[i].call = call })

\* The steps of Wolfssl_Connect in the order of the claim, and the calls
\* Wolfssl_Connect itself made that are steps (not its two releases).
StepOrder ==
    << "Sockets_Connect", "wolfSSL_CTX_new", "setCredentials", "wolfSSL_new",
       "wolfSSL_set_fd", "setOptionalConfigurations", "wolfSSL_connect" >>
IsStep(e) ==
    e.by = "Wolfssl_Connect" /\ e.call \notin {"wolfSSL_CTX_free", "wolfSSL_free"}
ConnectSteps == SelectSeq(tlsTrace, IsStep)
Succeeded(e) ==
    e.result \in {SOCKETS_SUCCESS, WOLFSSL_SUCCESS, ReturnsObject, ReturnsVoid}
\* The status that stands for the failure of a step.
FailureStatus(e) ==
    CASE e.call = "Sockets_Connect" ->
             (CASE e.result = SOCKETS_DNS_FAILURE -> WOLFSSL_DNS_FAILURE
                [] e.result = SOCKETS_CONNECT_FAILURE -> WOLFSSL_CONNECT_FAILURE
                [] OTHER -> WOLFSSL_INVALID_PARAMETER)
      [] e.call = "setCredentials" -> WOLFSSL_INVALID_CREDENTIALS
      [] e.call = "wolfSSL_connect" -> WOLFSSL_HANDSHAKE_FAILED
      [] OTHER -> WOLFSSL_API_ERROR

\* C13: the steps Wolfssl_Connect has attempted are always a beginning of
\* the order TCP connect, context creation, credential import, session
\* creation, binding, optional configuration, handshake (so each at most
\* once and in that order); every step but the last attempted one
\* succeeded; and when Connect has returned, its status is success exactly
\* if all seven steps were attempted and succeeded, and otherwise is the
\* status of the failed step.
C13_ConnectHardGates ==
    tlsOp = "Wolfssl_Connect" =>
        LET steps == ConnectSteps
            n == Len(steps)
        IN  /\ n <= Len(StepOrder)
            /\ \A i \in 1..n : steps[i].call = StepOrder[i]
            /\ \A i \in 1..(n - 1) : Succeeded(steps[i])
            /\ tlsPc = Idle =>
                 /\ wolfsslStatus = WOLFSSL_SUCCEED
                      <=> (n = Len(StepOrder) /\ Succeeded(steps[n]))
                 /\ (n > 0 /\ ~Succeeded(steps[n]))
                      => wolfsslStatus = FailureStatus(steps[n])

\* Connect returned after the binding to the socket failed, with a server
\* name in the credentials: five steps were attempted, the optional
\* configuration and the handshake were not, and the status is the API error.
C13_Witness ==
    /\ ConnectReturned
    /\ Returned("wolfSSL_set_fd", WOLFSSL_FAILURE)
    /\ tlsArgs.credentials.sniHostName # NULL
    /\ Len(ConnectSteps) = 5
    /\ ~Called("wolfSSL_connect")
    /\ wolfsslStatus = WOLFSSL_API_ERROR

CertImport == "wolfSSL_CTX_use_certificate_chain_file"
KeyImport == "wolfSSL_CTX_use_PrivateKey_file"
RootCaImport == "wolfSSL_CTX_load_verify_locations"

\* C14 as claimed: Wolfssl_Connect imports the client certificate or the
\* private key only if both paths are non-null.
C14_ClientCredentialsOnlyTogether ==
    (tlsOp = "Wolfssl_Connect" /\ (Called(CertImport) \/ Called(KeyImport))) =>
        /\ tlsArgs.credentials.pClientCertPath # NULL
        /\ tlsArgs.credentials.pPrivateKeyPath # NULL

\* C14: once Wolfssl_Connect has set up the credentials, the client
\* certificate was imported exactly if its path is non-null and the root CA
\* was imported, and the private key exactly if its path is non-null and
\* every import before it succeeded; neither depends on the other path
\* being non-null.  Before that step neither has been imported.
C14_ClientCredentialsEachOnItsOwn ==
    tlsOp = "Wolfssl_Connect" =>
        IF Called("setCredentials")
            THEN LET c == tlsArgs.credentials
                     rootOk == Returned(RootCaImport, WOLFSSL_SUCCESS)
                 IN  /\ Called(CertImport)
                          <=> (rootOk /\ c.pClientCertPath # NULL)
                     /\ Called(KeyImport)
                          <=> /\ rootOk
                              /\ c.pPrivateKeyPath # NULL
                              /\ (c.pClientCertPath # NULL
                                    => Returned(CertImport, WOLFSSL_SUCCESS))
            ELSE ~Called(CertImport) /\ ~Called(KeyImport)

\* Connect succeeded with a client certificate and no private key: the
\* certificate was imported and the key was not.
C14_Witness ==
    /\ ConnectReturned
    /\ wolfsslStatus = WOLFSSL_SUCCEED
    /\ tlsArgs.credentials.pClientCertPath # NULL
    /\ tlsArgs.credentials.pPrivateKeyPath = NULL
    /\ Returned(CertImport, WOLFSSL_SUCCESS)
    /\ ~Called(KeyImport)

\* The root CA path is NULL, or its import was tried and failed.
NoUsableRootCa ==
    \/ tlsArgs.credentials.pRootCaPath = NULL
    \/ Returned(RootCaImport, WOLFSSL_FAILURE)

\* C15: with a root CA path that is NULL or whose import fails, Connect
\* attempts neither the import of the client certificate, nor the creation
\* of the session, nor the handshake, and, having reached the set-up of the
\* credentials, returns WOLFSSL_INVALID_CREDENTIALS.
C15_RootCaMandatory ==
    (tlsOp = "Wolfssl_Connect" /\ tlsArgs.pWolfsslCredentials # NULL
       /\ NoUsableRootCa) =>
        /\ ~Called(CertImport)
        /\ ~Called("wolfSSL_new")
        /\ ~Called("wolfSSL_connect")
        /\ (tlsPc = Idle /\ Called("setCredentials"))
              => wolfsslStatus = WOLFSSL_INVALID_CREDENTIALS

\* Connect returned invalid credentials for credentials that have no root
\* CA path but a client certificate path, after the TCP connection and the
\* SSL context were made.
C15_Witness ==
    /\ ConnectReturned
    /\ Returned("wolfSSL_CTX_new", ReturnsObject)
    /\ tlsArgs.credentials.pRootCaPath = NULL
    /\ tlsArgs.credentials.pClientCertPath # NULL
    /\ Called("setCredentials")
    /\ wolfsslStatus = WOLFSSL_INVALID_CREDENTIALS

C17_HandleOnlyOverOpenSocket ==
    tlsPc = Idle => (pSsl # NULL => socketDescriptor = OpenSocket)

\* A step that is a call of Wolfssl_Disconnect on the network context.
DisconnectStep ==
    /\ tlsPc = Idle
    /\ nTransport' = nTransport + 1
    /\ tlsOp' = "Wolfssl_Disconnect"
    /\ tlsArgs'.pNetworkContext # NULL

\* C18 as claimed: Wolfssl_Disconnect on a network context that an earlier
\* Wolfssl_Disconnect tore down (SSL object freed, socket closed) returns
\* WOLFSSL_INVALID_PARAMETER and makes no call: no shutdown, no free, no close.
C18_SecondDisconnectRejected ==
    [][(DisconnectStep /\ pSsl = Freed /\ socketDescriptor = ClosedSocket) =>
          /\ tlsPc' = Idle
          /\ wolfsslStatus' = WOLFSSL_INVALID_PARAMETER
          /\ tlsTrace' = << >>]_vars

\* C19: when Wolfssl_Connect has returned a failure status and wolfSSL_new
\* had returned an SSL object in that call, the object was freed once and
\* pSsl is NULL.
C19_FailedHandleReleased ==
    (ConnectReturned /\ wolfsslStatus # WOLFSSL_SUCCEED
       /\ Returned("wolfSSL_new", ReturnsObject)) =>
        /\ pSsl = NULL
        /\ CountCalls("wolfSSL_free") = 1

\* Connect returned after the handshake failed on a created SSL object.
C19_Witness ==
    /\ ConnectReturned
    /\ wolfsslStatus = WOLFSSL_HANDSHAKE_FAILED
    /\ Returned("wolfSSL_new", ReturnsObject)
    /\ Returned("wolfSSL_connect", WOLFSSL_FAILURE)
    /\ Called("wolfSSL_free")
    /\ pSsl = NULL

\* C20: when Wolfssl_Connect has returned a failure status and
\* wolfSSL_CTX_new had returned an SSL context in that call, the context was
\* freed exactly once, and the socket Connect opened was not closed: no call
\* of Sockets_Disconnect was made and the socket is open.
C20_ContextReleasedSocketKept ==
    (ConnectReturned /\ wolfsslStatus # WOLFSSL_SUCCEED
       /\ Returned("wolfSSL_CTX_new", ReturnsObject)) =>
        /\ CountCalls("wolfSSL_CTX_free") = 1
        /\ pSslContext = Freed
        /\ ~Called("Sockets_Disconnect")
        /\ socketDescriptor = OpenSocket

\* Connect returned after the credentials were refused: the context was
\* made and freed, no SSL object was made, and the socket is open.
C20_Witness ==
    /\ ConnectReturned
    /\ wolfsslStatus = WOLFSSL_INVALID_CREDENTIALS
    /\ Returned("wolfSSL_CTX_new", ReturnsObject)
    /\ Called("wolfSSL_CTX_free")
    /\ ~Called("wolfSSL_new")
    /\ socketDescriptor = OpenSocket

\* C21: a Wolfssl_Disconnect on a network context whose pSsl is a live SSL
\* object makes these calls and no other, in this order: wolfSSL_shutdown;
\* a second wolfSSL_shutdown exactly if the first returned
\* WOLFSSL_SHUTDOWN_NOT_DONE; wolfSSL_free; Sockets_Disconnect, after which
\* the socket is not open.
C21_DisconnectOrder ==
    [][(DisconnectStep /\ pSsl = Live) =>
          LET t == tlsTrace'
              n == Len(t)
          IN  /\ tlsPc' = Idle
              /\ n >= 3
              /\ t[1].call = "wolfSSL_shutdown"
              /\ n = (IF t[1].result = WOLFSSL_SHUTDOWN_NOT_DONE THEN 4 ELSE 3)
              /\ (n = 4 => t[2].call = "wolfSSL_shutdown")
              /\ t[n - 1].call = "wolfSSL_free"
              /\ t[n].call = "Sockets_Disconnect"
              /\ socketDescriptor' # OpenSocket]_vars

\* A successful Connect was followed by a Disconnect whose first shutdown
\* was not yet echoed: four calls were made and the socket is closed.
C21_Witness ==
    /\ tlsPc = Idle
    /\ tlsOp = "Wolfssl_Disconnect"
    /\ nTransport = 2
    /\ Len(tlsTrace) = 4
    /\ tlsTrace[1].result = WOLFSSL_SHUTDOWN_NOT_DONE
    /\ pSsl = Freed
    /\ socketDescriptor = ClosedSocket

\* The latest call was a transfer that returned to the caller.
RecvReturned == tlsPc = Idle /\ tlsOp = "Wolfssl_Recv"
SendReturned == tlsPc = Idle /\ tlsOp = "Wolfssl_Send"

\* C22 as claimed: when wolfSSL_read transferred nothing, Wolfssl_Recv
\* returns 0 if the SSL object reports that it wants to read, and a value
\* below 0 for every other error.
C22_RecvZeroOnlyForWantRead ==
    (RecvReturned /\ Called("wolfSSL_read") /\ channelRet <= 0) =>
        IF Returned("wolfSSL_get_error", WOLFSSL_ERROR_WANT_READ)
            THEN bytesTransferred = 0
            ELSE bytesTransferred < 0

\* C23 as claimed: when wolfSSL_write sent no byte, Wolfssl_Send returns a
\* value below 0.
C23_SendFailureNegative ==
    (SendReturned /\ Called("wolfSSL_write") /\ channelRet <= 0) =>
        bytesTransferred < 0

\* C24 as claimed: Wolfssl_Send with a NULL pNetworkContext, or with a NULL
\* pSsl in it, returns a value below 0 and makes no call.
C24_SendWithoutSessionIsError ==
    (SendReturned /\ (tlsArgs.pNetworkContext = NULL \/ pSsl = NULL)) =>
        /\ bytesTransferred < 0
        /\ tlsTrace = << >>

\* C25 as claimed: when Wolfssl_Connect has returned, it has freed neither
\* the root CA path nor the private key path of the credentials (and has
\* no call that could touch the client certificate path).
C25_CredentialsNotInvalidated ==
    ConnectReturned =>
        /\ ~Called("free( pRootCaPath )")
        /\ ~Called("free( pPrivateKeyPath )")

\* ------------------------------------------------ topics and the documents
\* loadTopicStrings has returned.
TopicsLoaded == pc # "loadTopicStrings"
\* shadow_demo_main returned EXIT_FAILURE right after loadTopicStrings,
\* without a call of any session helper.
AbortedBeforeNetwork ==
    pc = "done" /\ returnStatus = EXIT_FAILURE /\ calls = << >> /\ ~inCall

\* C26 as claimed: when the topics could not be derived from the device
\* identifier, so that the topic buffers hold empty strings after
\* loadTopicStrings, shadow_demo_main has returned failure without a call
\* of a session helper.
C26_UnderivableIdRejected ==
    (TopicsLoaded /\ ShadowTopicStrings = EmptyTopics) => AbortedBeforeNetwork

\* C27: when GetDeviceID could not supply the device identifier,
\* shadow_demo_main has returned EXIT_FAILURE and no session helper
\* (EstablishMqttSession, publish, subscribe, unsubscribe, disconnect) was
\* ever called.
C27_UnavailableIdAborts ==
    device_id = IdUnavailable => AbortedBeforeNetwork

\* The run ended on an unavailable device identifier.
C27_Witness ==
    /\ device_id = IdUnavailable
    /\ pc = "done"
    /\ returnStatus = EXIT_FAILURE
    /\ nInbound = 0

\* What the receiver of a reported document finds in it: the document is
\* valid when it is the literal text around a numeral for powerOn and a
\* numeral for clientToken, up to its closing brace; the two numerals are
\* the fields.
RECURSIVE DigitsEnd(_, _)
DigitsEnd(s, i) ==
    IF i <= Len(s) /\ IsDigit(s[i]) THEN DigitsEnd(s, i + 1) ELSE i
LiteralAt(literal, s, i) ==
    /\ i + Len(literal) - 1 <= Len(s)
    /\ SubSeq(s, i, i + Len(literal) - 1) = literal
ParseReported(doc) ==
    LET a == Len(ReportedHead) + 1
        b == DigitsEnd(doc, a)
        c == b + Len(TokenHead)
        d == DigitsEnd(doc, c)
    IN  IF /\ LiteralAt(ReportedHead, doc, 1)
           /\ b > a
           /\ LiteralAt(TokenHead, doc, b)
           /\ d > c
           /\ LiteralAt(DocumentTail, doc, d)
           /\ d + Len(DocumentTail) - 1 = Len(doc)
            THEN [valid |-> TRUE, powerOn |-> SubSeq(doc, a, b - 1),
                  clientToken |-> SubSeq(doc, c, d - 1)]
            ELSE [valid |-> FALSE, powerOn |-> NULL, clientToken |-> NULL]

\* The step of shadow_demo_main that issues the reported publish.
ReportedStep == pc = "PublishReported" /\ ~inCall /\ inCall'

\* C28 as claimed: the reported publish is issued only when stateChanged is
\* set; when it is issued, clientToken already holds the new token, and the
\* published payload is a document that carries that token and the value
\* currentPowerOnState has at that moment.
C28_ReportedCarriesTokenAndValue ==
    [][ReportedStep =>
          LET sent == ParseReported(payload(updateDocument', calls'[Len(calls')].len))
          IN  /\ stateChanged
              /\ sent.valid
              /\ strtoul(sent.clientToken) = clientToken'
              /\ strtoul(sent.powerOn) = currentPowerOnState]_vars

\* C29: an invocation of eventCallback issues no call of a session helper
\* and does not touch the control state of shadow_demo_main; it writes only
\* the statics currentPowerOnState, currentVersion, stateChanged and
\* eventCallbackError (clientToken, the topics and updateDocument stay as
\* they are), and the run reads stateChanged only when no helper is running.
C29_CallbackOnlyWritesStatics ==
    [][/\ (nInbound' # nInbound) =>
              /\ inCall /\ inCall'
              /\ UNCHANGED << calls, pc, returnStatus, clientToken, topics,
                              updateDocument >>
       /\ ReportedStep => ~inCall]_vars

\* A delta delivered while a helper was running marked the state as changed
\* and no call was added by it.
C29_Witness ==
    /\ inCall
    /\ nInbound = 1
    /\ packet.topic = "ShadowMessageTypeUpdateDelta"
    /\ stateChanged
    /\ currentPowerOnState = 1
    /\ Len(calls) = 2

\* Tokens the run can produce, with the smallest and the largest.
TokenSamples == { ms % TokenModulus : ms \in ClockMs } \cup {0, TokenModulus - 1}

\* C30 as claimed: for the value currentPowerOnState holds and every token
\* t, the reported document built from them has one digit for powerOn and
\* six digits for clientToken, is not cut by the size of updateDocument,
\* and parsing it yields the value and the token again.
C30_ReportedRoundTrip ==
    \A t \in TokenSamples :
        LET text == SHADOW_REPORTED_JSON(currentPowerOnState, t)
            doc == snprintf(SHADOW_REPORTED_JSON_LENGTH + 1, text)
            back == ParseReported(doc)
        IN  /\ doc = text
            /\ back.valid
            /\ Len(back.powerOn) = 1
            /\ Len(back.clientToken) = TokenWidth
            /\ strtoul(back.powerOn) = currentPowerOnState
            /\ strtoul(back.clientToken) = t

\* ----------------------------------------------------- Disconnect with NULL
\* A step that is a call of Wolfssl_Disconnect with a NULL pNetworkContext.
DisconnectNullStep ==
    /\ tlsPc = Idle
    /\ nTransport' = nTransport + 1
    /\ tlsOp' = "Wolfssl_Disconnect"
    /\ tlsArgs'.pNetworkContext = NULL

\* C31: Wolfssl_Disconnect with a NULL pNetworkContext returns
\* WOLFSSL_INVALID_PARAMETER and makes no call (no wolfSSL_shutdown, no
\* wolfSSL_free, no Sockets_Disconnect): the SSL object and the socket are
\* as they were.
C31_DisconnectNullContext ==
    [][DisconnectNullStep =>
          /\ tlsPc' = Idle
          /\ wolfsslStatus' = WOLFSSL_INVALID_PARAMETER
          /\ tlsTrace' = << >>
          /\ UNCHANGED << pSsl, pSslContext, socketDescriptor >>]_vars

\* After a successful Connect, a Disconnect with a NULL pNetworkContext has
\* returned: the SSL object is live and the socket still open.
C31_Witness ==
    /\ tlsPc = Idle
    /\ tlsOp = "Wolfssl_Disconnect"
    /\ tlsArgs.pNetworkContext = NULL
    /\ wolfsslStatus = WOLFSSL_INVALID_PARAMETER
    /\ tlsTrace = << >>
    /\ pSsl = Live
    /\ socketDescriptor = OpenSocket

\* ------------------------------------------------- who writes the statics
\* An eventCallback step, for whatever packet.
CallbackStep == nInbound' = nInbound + 1

\* C32: currentPowerOnState, currentVersion and stateChanged change only in
\* an eventCallback invocation for a publish on update/delta: invocations
\* for every other packet and all steps of shadow_demo_main (the publishes,
\* subscribes and unsubscribes, the returns of the helpers) leave the three
\* unchanged.
C32_StateWrittenOnlyByDelta ==
    [][DeltaStep \/ UNCHANGED << currentPowerOnState, currentVersion, stateChanged >>]_vars

\* A delta changed the state, then a publish on update/rejected was handled,
\* and the run went on to the unsubscribes: the three still have the values
\* the delta gave them.
C32_Witness ==
    /\ nInbound = 2
    /\ packet.type = "PUBLISH"
    /\ packet.topic = "ShadowMessageTypeUpdateRejected"
    /\ stateChanged
    /\ currentPowerOnState = 1
    /\ currentVersion = 1
    /\ pc = "UnsubscribeDelta"

\* An eventCallback step for a valid delta whose version is a number that is
\* not greater than currentVersion.
StaleDeltaStep ==
    /\ DeltaStep
    /\ packet'.doc.valid
    /\ IsNumeric(packet'.doc.version)
    /\ strtoul(packet'.doc.version) <= currentVersion

\* C33: handling a valid delta whose version is not greater than
\* currentVersion leaves eventCallbackError and currentVersion as they were,
\* whatever powerOn the delta carries.
C33_StaleDeltaNotAnError ==
    [][StaleDeltaStep => UNCHANGED << eventCallbackError, currentVersion >>]_vars

\* The latest packet was a valid delta with the stored version 10 and a
\* powerOn, 0, that is not the local one; no error is flagged and the
\* stored version is still 10.
C33_Witness ==
    /\ nInbound = 2
    /\ DeltaHandled
    /\ packet.doc.valid
    /\ packet.doc.version = Decimal(10)
    /\ packet.doc.powerOn = Decimal(0)
    /\ currentPowerOnState # 0
    /\ currentVersion = 10
    /\ ~eventCallbackError

\* C34: an eventCallback invocation for a publish whose topic
\* Shadow_MatchTopic does not match sets eventCallbackError and leaves the
\* other statics as they were; one for a publish on update/rejected or
\* update/documents leaves all statics, eventCallbackError included, as
\* they were.
C34_UnmatchedFlaggedOthersLogged ==
    [][(CallbackStep /\ packet'.type = "PUBLISH") =>
          /\ packet'.topic = NoMatch =>
                /\ eventCallbackError'
                /\ UNCHANGED << currentPowerOnState, currentVersion, stateChanged,
                                clientToken >>
          /\ packet'.topic \in {"ShadowMessageTypeUpdateRejected",
                                "ShadowMessageTypeUpdateDocuments"} =>
                UNCHANGED << currentPowerOnState, currentVersion, stateChanged,
                             clientToken, eventCallbackError >>]_vars

\* After a delta that changed the state, a publish on a topic that is no
\* shadow topic was handled: the flag is set, the state is the delta's.
C34_Witness ==
    /\ nInbound = 2
    /\ packet.type = "PUBLISH"
    /\ packet.topic = NoMatch
    /\ eventCallbackError
    /\ stateChanged
    /\ currentPowerOnState = 1
    /\ currentVersion = 1

\* An eventCallback step for a valid delta with a newer version and without
\* state.powerOn.
NewerDeltaWithoutPowerOnStep ==
    /\ DeltaStep
    /\ packet'.doc.valid
    /\ IsNumeric(packet'.doc.version)
    /\ strtoul(packet'.doc.version) > currentVersion
    /\ packet'.doc.powerOn = NULL

\* An eventCallback step for a valid delta that has the version of the
\* delta handled before it, which lacked state.powerOn and whose version is
\* the stored one, and that now carries a powerOn.
CorrectedDeltaStep ==
    /\ DeltaHandled
    /\ packet.doc.valid
    /\ IsNumeric(packet.doc.version)
    /\ packet.doc.powerOn = NULL
    /\ strtoul(packet.doc.version) = currentVersion
    /\ DeltaStep
    /\ packet'.doc.valid
    /\ packet'.doc.version = packet.doc.version
    /\ packet'.doc.powerOn # NULL

\* C35 as claimed: a valid delta with a newer version and no state.powerOn
\* sets eventCallbackError, leaves currentPowerOnState and stateChanged as
\* they were and stores its version; a delta with that same version and a
\* powerOn that follows it is discarded: it changes neither
\* currentPowerOnState nor stateChanged nor currentVersion.
C35_VersionAdvancedBeforePowerOn ==
    [][/\ NewerDeltaWithoutPowerOnStep =>
              /\ eventCallbackError'
              /\ UNCHANGED << currentPowerOnState, stateChanged >>
              /\ currentVersion' = strtoul(packet'.doc.version)
       /\ CorrectedDeltaStep =>
              UNCHANGED << currentPowerOnState, stateChanged, currentVersion >>]_vars

\* The publishes to the update topic: the desired one, then the reported one.
UpdatePublishes ==
    { i \in DOMAIN calls : calls[i].op = "PublishToTopic" /\ calls[i].topic = "update" }

\* C36: a run publishes the desired document and at most one reported
\* document; the reported publish is issued only after the desired publish
\* has returned EXIT_SUCCESS, and nothing that happens after it, a delta
\* that sets stateChanged during the reported publish or an unsubscribe
\* included, leads to another publish.
C36_AtMostOneReported ==
    /\ Cardinality(UpdatePublishes) <= 2
    /\ (pc = "PublishReported" /\ inCall) => Cardinality(UpdatePublishes) = 2
    /\ Cardinality(UpdatePublishes) = 2 =>
          \E i \in UpdatePublishes :
              /\ i < Len(calls)
              /\ calls[i].status = EXIT_SUCCESS
              /\ calls[i + 1].op = "PublishToTopic"
              /\ calls[i + 1].topic = "update"

\* The run is over with one reported document published, which carries
\* powerOn 1, and a later delta has set currentPowerOnState to 0.
C36_Witness ==
    /\ pc = "done"
    /\ Cardinality(UpdatePublishes) = 2
    /\ ParseReported(updateDocument).valid
    /\ ParseReported(updateDocument).powerOn = Decimal(1)
    /\ currentPowerOnState = 0
    /\ stateChanged
    /\ DeltaHandled

\* ------------------------------------------------ optional configurations
OptionalCalls == {"wolfSSL_UseALPN", "wolfSSL_UseMaxFragment", "wolfSSL_UseSNI"}

\* C37: in a call of Wolfssl_Connect, wolfSSL_UseSNI is called only for a
\* host name that is not NULL, wolfSSL_UseMaxFragment only for a nonzero
\* maxFragmentLength, wolfSSL_UseALPN only for a protocol list that is not
\* NULL and has a nonzero length; every such call comes after a successful
\* wolfSSL_set_fd and before wolfSSL_connect, which follows whatever the
\* optional calls returned; and the status Wolfssl_Connect returns is that
\* of the handshake.
C37_OptionalConfigurations ==
    tlsOp = "Wolfssl_Connect" =>
        /\ Called("wolfSSL_UseSNI") => tlsArgs.credentials.sniHostName # NULL
        /\ Called("wolfSSL_UseMaxFragment") => tlsArgs.credentials.maxFragmentLength > 0
        /\ Called("wolfSSL_UseALPN") =>
              /\ tlsArgs.credentials.pAlpnProtos # NULL
              /\ tlsArgs.credentials.alpnProtosLen > 0
        /\ \A i \in DOMAIN tlsTrace :
              tlsTrace[i].call \in OptionalCalls =>
                  /\ \E j \in 1..(i - 1) :
                        /\ tlsTrace[j].call = "wolfSSL_set_fd"
                        /\ tlsTrace[j].result = WOLFSSL_SUCCESS
                  /\ \A j \in 1..(i - 1) : tlsTrace[j].call # "wolfSSL_connect"
                  /\ \E j \in (i + 1)..Len(tlsTrace) :
                        tlsTrace[j].call = "wolfSSL_connect"
        /\ (ConnectReturned /\ Called("wolfSSL_set_fd")
              /\ Returned("wolfSSL_set_fd", WOLFSSL_SUCCESS)) =>
              /\ Called("wolfSSL_connect")
              /\ wolfsslStatus = IF Returned("wolfSSL_connect", WOLFSSL_SUCCESS)
                                     THEN WOLFSSL_SUCCEED
                                     ELSE WOLFSSL_HANDSHAKE_FAILED

\* Wolfssl_Connect returned WOLFSSL_SUCCEED although both wolfSSL_UseALPN
\* and wolfSSL_UseSNI, which were requested, had failed.
C37_Witness ==
    /\ ConnectReturned
    /\ wolfsslStatus = WOLFSSL_SUCCEED
    /\ Returned("wolfSSL_UseALPN", WOLFSSL_FAILURE)
    /\ Returned("wolfSSL_UseSNI", WOLFSSL_FAILURE)
    /\ Returned("wolfSSL_connect", WOLFSSL_SUCCESS)

====
